---- MODULE Spec2Model ----
(***************************************************************************)
(* Model of the Microfinance ledger contract (contracts/Microfinance.sol): *)
(* request / fund / reject / repay of loans, the administrator controls,   *)
(* and the value transfers of fundLoan and repayLoan, whose recipients run *)
(* a receipt hook that may call back into the contract before the outer    *)
(* call has finished.                                                      *)
(***************************************************************************)
EXTENDS Integers, Sequences, FiniteSets, TLC

\* ----- bounds of the model ------------------------------------------------
MaxLoans == 2
MaxTime == 4
MaxHookCalls == 1

\* ----- program constants --------------------------------------------------
DAY == 86400
BPS_DENOMINATOR == 10000
MAX_FEE_BPS == 1000
DEFAULT_LENDER_FEE_BPS == 100
DEFAULT_BORROWER_FEE_BPS == 50
CREDIT_INCREMENT == 10

\* ----- accounts -----------------------------------------------------------
NONE == "none"
Owner == "owner"
Ledger == "ledger"
Accounts == {"owner", "alice", "bob"}
Users == {"alice", "bob"}
Holders == Accounts \cup {Ledger}
InitialBalance == 2000

\* ----- inputs the callers choose from -------------------------------------
\* requestLoan's arguments: a valid request, one with each single argument
\* invalid, and one with all of them invalid.
RequestInputs ==
    {<<250, 1, "seed">>, <<0, 1, "seed">>, <<250, 0, "seed">>, <<250, 1, "">>,
     <<0, 0, "">>}
FeeInputs == {<<1000, 1000>>, <<1001, 50>>, <<100, 1001>>}
TreasuryInputs == {Owner, "bob", NONE}
LoanIds == 0..MaxLoans

\* ----- LoanStatus ----------------------------------------------------------
Pending == "Pending"
Approved == "Approved"
Repaid == "Repaid"
Rejected == "Rejected"

VARIABLES loans, userLoans, creditScores, lenderFeeBps, borrowerFeeBps,
          treasury, paused, guard, balance, events, now, call, saved, last,
          quote, localStorage, did

storage == <<loans, userLoans, creditScores, lenderFeeBps, borrowerFeeBps,
             treasury, paused, guard, balance, events>>
vars == <<loans, userLoans, creditScores, lenderFeeBps, borrowerFeeBps,
          treasury, paused, guard, balance, events, now, call, saved, last,
          quote, localStorage, did>>

\* The state of the browser: what a client has read, and the rejected-loan
\* marks kept in localStorage (utils/rejectedLoans.ts).
browser == <<quote, localStorage, did>>

\* ----- records ------------------------------------------------------------
Loan(borrower, amount, duration, purpose, status, dueDate, lender) ==
    [borrower |-> borrower, amount |-> amount, duration |-> duration,
     purpose |-> purpose, status |-> status, dueDate |-> dueDate,
     lender |-> lender]

Event(type, loanId, borrower, lender, amount, duration, lenderFee, borrowerFee) ==
    [type |-> type, loanId |-> loanId, borrower |-> borrower,
     lender |-> lender, amount |-> amount, duration |-> duration,
     lenderFee |-> lenderFee, borrowerFee |-> borrowerFee]

LoanRequested(loanId, borrower, amount, duration) ==
    Event("LoanRequested", loanId, borrower, NONE, amount, duration, 0, 0)

LoanFunded_FeesSwapped(loanId, borrower, lender, amount, lenderFee, borrowerFee) ==
    Event("LoanFunded", loanId, borrower, lender, amount, 0, borrowerFee, lenderFee)

LoanFunded(loanId, borrower, lender, amount, lenderFee, borrowerFee) ==
    Event("LoanFunded", loanId, borrower, lender, amount, 0, lenderFee, borrowerFee)

LoanRejected(loanId, borrower) ==
    Event("LoanRejected", loanId, borrower, NONE, 0, 0, 0, 0)

LoanRepaid_ByLender(loanId, borrower, lender, amount) ==
    Event("LoanRepaid", loanId, lender, borrower, amount, 0, 0, 0)

LoanRepaid(loanId, borrower, lender, amount) ==
    Event("LoanRepaid", loanId, borrower, lender, amount, 0, 0, 0)

\* The call in progress (fundLoan or repayLoan between its transfers).
Idle ==
    [op |-> "none", pc |-> "idle", loanId |-> 0, sender |-> NONE, value |-> 0,
     lenderFee |-> 0, borrowerFee |-> 0, hook |-> NONE, made |-> 0]

\* The storage as it was when the transaction in progress began.
Snapshot ==
    [loans |-> loans, userLoans |-> userLoans, creditScores |-> creditScores,
     lenderFeeBps |-> lenderFeeBps, borrowerFeeBps |-> borrowerFeeBps,
     treasury |-> treasury, paused |-> paused, guard |-> guard,
     balance |-> balance, events |-> events]

NoSnapshot ==
    [loans |-> <<>>, userLoans |-> [a \in Accounts |-> <<>>],
     creditScores |-> [a \in Accounts |-> 0],
     lenderFeeBps |-> 0, borrowerFeeBps |-> 0, treasury |-> NONE,
     paused |-> FALSE, guard |-> "NOT_ENTERED",
     balance |-> [h \in Holders |-> 0], events |-> <<>>]

\* The outcome of the last call that returned (top-level or nested).
Outcome(op, sender, loanId, value, args, result, nested) ==
    [op |-> op, sender |-> sender, loanId |-> loanId, value |-> value,
     args |-> args, result |-> result, nested |-> nested]

NoOutcome == Outcome("none", NONE, 0, 0, <<>>, "ok", FALSE)

\* What a lender's client has read and computed before it sends fundLoan
\* (scripts/fundLoanNode.js: amount, lenderFeeBps, required).
Quote(lender, loanId, amount, bps, required) ==
    [lender |-> lender, loanId |-> loanId, amount |-> amount,
     lenderFeeBps |-> bps, required |-> required]

NoQuote == Quote(NONE, 0, 0, 0, 0)

\* A call that reverted on one of its checks. A modifier (nonReentrant,
\* whenNotPaused, onlyOwner) reverts before the body looks at the arguments.
Failure(op, sender, loanId, value, args, err) ==
    IF err \in {"Reentrant", "Paused", "Unauthorized"}
    THEN Outcome(op, sender, 0, 0, <<>>, err, call.pc # "idle")
    ELSE Outcome(op, sender, loanId, value, args, err, call.pc # "idle")

\* The last call that wrote to localStorage, and how many there have been.
StoreCall(op, networkId, contract, loanId, n) ==
    [op |-> op, networkId |-> networkId, contract |-> contract,
     loanId |-> loanId, n |-> n]

NoCall == StoreCall("none", [kind |-> "null"], <<>>, 0, 0)

\* ----- who may call --------------------------------------------------------
Nested == call.pc # "idle"

\* Between transactions anyone calls; during a transfer only the code of the
\* recipient runs, and the deployer (owner) is a plain key without code. A
\* receipt hook makes at most MaxHookCalls calls before it returns.
CanCall(a) ==
    \/ ~Nested /\ now < MaxTime
    \/ Nested /\ a = call.hook /\ a # Owner /\ call.made < MaxHookCalls

\* A call made from the receipt hook is counted against the hook.
Counted == call' = IF Nested THEN [call EXCEPT !.made = @ + 1] ELSE call

\* The owner-only operations are sent as transactions; a receipt hook, which
\* is never the owner's, has no use for them.
CanAdminister(a) == ~Nested /\ now < MaxTime

\* Every transaction is mined in a block of its own, one second after the
\* previous one; the calls a receipt hook makes belong to the transaction
\* in progress and see its timestamp.
Mined == now' = IF Nested THEN now ELSE now + 1

\* ----- constructor ---------------------------------------------------------
Init ==
    /\ loans = <<>>
    /\ userLoans = [a \in Accounts |-> <<>>]
    /\ creditScores = [a \in Accounts |-> 0]
    /\ lenderFeeBps = DEFAULT_LENDER_FEE_BPS
    /\ borrowerFeeBps = DEFAULT_BORROWER_FEE_BPS
    /\ treasury = Owner
    /\ paused = FALSE
    /\ guard = "NOT_ENTERED"
    /\ balance = [h \in Holders |-> IF h = Ledger THEN 0 ELSE InitialBalance]
    /\ events = <<>>
    /\ now = 1
    /\ call = Idle
    /\ saved = NoSnapshot
    /\ last = NoOutcome
    /\ quote = NoQuote
    /\ localStorage = <<>>
    /\ did = NoCall

\* ----- requestLoan ---------------------------------------------------------
requestLoanError_AnyPurpose(amount, duration, purpose) ==
    IF paused THEN "Paused"
    ELSE IF ~(amount > 0) THEN "InvalidAmount"
    ELSE IF ~(duration > 0) THEN "InvalidDuration"
    ELSE "ok"

requestLoanError(amount, duration, purpose) ==
    IF paused THEN "Paused"
    ELSE IF ~(amount > 0) THEN "InvalidAmount"
    ELSE IF ~(duration > 0) THEN "InvalidDuration"
    ELSE IF purpose = "" THEN "EmptyPurpose"
    ELSE "ok"

NextLoanId_OffByOne(ls) == Len(ls) + 1

NextLoanId(ls) == Len(ls)

DueDate(t, duration) == t + (duration * DAY)

NewLoan_SelfLent(sender, amount, duration, purpose, t) ==
    Loan(sender, amount, duration, purpose, Pending, DueDate(t, duration), sender)

NewLoan_Unset(sender, amount, duration, purpose, t) ==
    Loan(sender, amount, duration, purpose, Pending, 0, NONE)

\* The Loan pushed by requestLoan (lines 93-101).
NewLoan(sender, amount, duration, purpose, t) ==
    Loan(sender, amount, duration, purpose, Pending, DueDate(t, duration), NONE)

requestLoan_Unindexed(sender, amount, duration, purpose) ==
    /\ CanCall(sender)
    /\ LET err == requestLoanError(amount, duration, purpose)
           loanId == NextLoanId(loans)
       IN  IF err # "ok"
           THEN /\ last' = Failure("requestLoan", sender, 0, 0, <<amount, duration, purpose>>, err)
                /\ Mined /\ Counted /\ UNCHANGED <<storage, saved>>
           ELSE /\ Len(loans) < MaxLoans
                /\ loans' = Append(loans, NewLoan(sender, amount, duration, purpose, now))
                /\ userLoans' = userLoans
                /\ events' = Append(events,
                                    LoanRequested(loanId, sender, amount, duration))
                /\ last' = Outcome("requestLoan", sender, loanId, 0,
                                   <<amount, duration, purpose>>, "ok", Nested)
                /\ Mined
                /\ Counted
                /\ UNCHANGED <<creditScores, lenderFeeBps, borrowerFeeBps,
                               treasury, paused, guard, balance, saved>>

requestLoan(sender, amount, duration, purpose) ==
    /\ CanCall(sender)
    /\ LET err == requestLoanError(amount, duration, purpose)
           loanId == NextLoanId(loans)
       IN  IF err # "ok"
           THEN /\ last' = Failure("requestLoan", sender, 0, 0, <<amount, duration, purpose>>, err)
                /\ Mined /\ Counted /\ UNCHANGED <<storage, saved>>
           ELSE /\ Len(loans) < MaxLoans
                /\ loans' = Append(loans, NewLoan(sender, amount, duration, purpose, now))
                /\ userLoans' = [userLoans EXCEPT ![sender] = Append(@, loanId)]
                /\ events' = Append(events,
                                    LoanRequested(loanId, sender, amount, duration))
                /\ last' = Outcome("requestLoan", sender, loanId, 0,
                                   <<amount, duration, purpose>>, "ok", Nested)
                /\ Mined
                /\ Counted
                /\ UNCHANGED <<creditScores, lenderFeeBps, borrowerFeeBps,
                               treasury, paused, guard, balance, saved>>

\* ----- fee arithmetic (fundLoan, lines 126-128 and 137) ---------------------
LenderFee_AtDefaultRate(amount, bps) ==
    (amount * DEFAULT_LENDER_FEE_BPS) \div BPS_DENOMINATOR

LenderFee(amount, bps) == (amount * bps) \div BPS_DENOMINATOR

BorrowerFee_Percent(amount, bps) == (amount * bps) \div 100

BorrowerFee(amount, bps) == (amount * bps) \div BPS_DENOMINATOR

Required(amount, lenderFee) == amount + lenderFee

ToBorrower_NoFee(amount, borrowerFee) == amount

ToBorrower(amount, borrowerFee) == amount - borrowerFee

\* A value transfer out of the contract: `to.call{value: v}("")`.
Pay(bal, to, v) ==
    [bal EXCEPT ![Ledger] = @ - v, ![to] = @ + v]

\* msg.value arriving with a payable call.
Receive(bal, from, v) ==
    [bal EXCEPT ![from] = @ - v, ![Ledger] = @ + v]

\* ----- fundLoan ------------------------------------------------------------
fundLoanError_AtLeast(loanId, value) ==
    IF guard = "ENTERED" THEN "Reentrant"
    ELSE IF paused THEN "Paused"
    ELSE IF ~(loanId < Len(loans)) THEN "LoanNotFound"
    ELSE IF loans[loanId + 1].status # Pending THEN "NotPending"
    ELSE IF ~(loans[loanId + 1].amount > 0) THEN "InvalidAmount"
    ELSE IF value < Required(loans[loanId + 1].amount,
                             LenderFee(loans[loanId + 1].amount, lenderFeeBps))
         THEN "IncorrectValue"
    ELSE "ok"

fundLoanError_UnlessTerminal(loanId, value) ==
    IF guard = "ENTERED" THEN "Reentrant"
    ELSE IF paused THEN "Paused"
    ELSE IF ~(loanId < Len(loans)) THEN "LoanNotFound"
    ELSE IF loans[loanId + 1].status \in {Repaid, Rejected} THEN "NotPending"
    ELSE IF ~(loans[loanId + 1].amount > 0) THEN "InvalidAmount"
    ELSE IF value # Required(loans[loanId + 1].amount,
                             LenderFee(loans[loanId + 1].amount, lenderFeeBps))
         THEN "IncorrectValue"
    ELSE "ok"

fundLoanError(loanId, value) ==
    IF guard = "ENTERED" THEN "Reentrant"
    ELSE IF paused THEN "Paused"
    ELSE IF ~(loanId < Len(loans)) THEN "LoanNotFound"
    ELSE IF loans[loanId + 1].status # Pending THEN "NotPending"
    ELSE IF ~(loans[loanId + 1].amount > 0) THEN "InvalidAmount"
    ELSE IF value # Required(loans[loanId + 1].amount,
                             LenderFee(loans[loanId + 1].amount, lenderFeeBps))
         THEN "IncorrectValue"
    ELSE "ok"

\* The values a lender may attach: the exact price, one less, one more.
FundValues(loanId) ==
    IF loanId < Len(loans)
    THEN LET r == Required(loans[loanId + 1].amount,
                           LenderFee(loans[loanId + 1].amount, lenderFeeBps))
         IN  {r - 1, r, r + 1} \cap Nat
    ELSE {0}

\* Entry of fundLoan up to and including the first transfer (lines 115-133).
fundLoan(sender, loanId, value) ==
    /\ CanCall(sender)
    /\ balance[sender] >= value
    /\ LET err == fundLoanError(loanId, value)
       IN  IF err # "ok"
           THEN /\ last' = Failure("fundLoan", sender, loanId, value, <<>>, err)
                /\ Mined /\ Counted /\ UNCHANGED <<storage, saved>>
           ELSE LET L == loans[loanId + 1]
                    lenderFee == LenderFee(L.amount, lenderFeeBps)
                    borrowerFee == BorrowerFee(L.amount, borrowerFeeBps)
                IN  /\ saved' = Snapshot
                    /\ guard' = "ENTERED"
                    /\ balance' = Pay(Receive(balance, sender, value), treasury, lenderFee)
                    /\ call' = [op |-> "fundLoan", pc |-> "fund_leg1",
                                loanId |-> loanId, sender |-> sender,
                                value |-> value, lenderFee |-> lenderFee,
                                borrowerFee |-> borrowerFee, hook |-> treasury,
                                made |-> 0]
                    /\ UNCHANGED <<loans, userLoans, creditScores, lenderFeeBps,
                                   borrowerFeeBps, treasury, paused, events, now, last>>

\* ok1 is true: the proceeds go to the borrower (lines 134-138).
fundLoanLeg2 ==
    /\ call.pc = "fund_leg1"
    /\ LET L == loans[call.loanId + 1]
           toBorrower == ToBorrower(L.amount, call.borrowerFee)
       IN  /\ balance' = Pay(balance, L.borrower, toBorrower)
           /\ call' = [call EXCEPT !.pc = "fund_leg2", !.hook = L.borrower,
                                   !.made = 0]
    /\ UNCHANGED <<loans, userLoans, creditScores, lenderFeeBps, borrowerFeeBps,
                   treasury, paused, guard, events, now, saved, last>>

fundLoanLeg3_FeeKept ==
    /\ call.pc = "fund_leg2"
    /\ call' = [call EXCEPT !.pc = "fund_leg3", !.hook = treasury, !.made = 0]
    /\ UNCHANGED <<loans, userLoans, creditScores, lenderFeeBps, borrowerFeeBps,
                   treasury, paused, guard, balance, events, now, saved, last>>

\* ok2 is true: the borrower fee goes to the treasury (lines 139-142).
fundLoanLeg3 ==
    /\ call.pc = "fund_leg2"
    /\ balance' = Pay(balance, treasury, call.borrowerFee)
    /\ call' = [call EXCEPT !.pc = "fund_leg3", !.hook = treasury, !.made = 0]
    /\ UNCHANGED <<loans, userLoans, creditScores, lenderFeeBps, borrowerFeeBps,
                   treasury, paused, guard, events, now, saved, last>>

Funded_NoLender(L, lender, t) ==
    [L EXCEPT !.status = Approved, !.dueDate = DueDate(t, L.duration)]

Funded_DurationOnly(L, lender, t) ==
    [L EXCEPT !.status = Approved, !.lender = lender,
              !.dueDate = L.duration * DAY]

Funded_PurposeCleared(L, lender, t) ==
    [L EXCEPT !.status = Approved, !.lender = lender,
              !.dueDate = DueDate(t, L.duration), !.purpose = ""]

Funded(L, lender, t) ==
    [L EXCEPT !.status = Approved, !.lender = lender,
              !.dueDate = DueDate(t, L.duration)]

\* ok3 is true: the loan is marked funded and the call returns (lines 143-150).
fundLoanFinish ==
    /\ call.pc = "fund_leg3"
    /\ LET L == loans[call.loanId + 1]
       IN  /\ loans' = [loans EXCEPT ![call.loanId + 1] = Funded(L, call.sender, now)]
           /\ events' = Append(events,
                  LoanFunded(call.loanId, L.borrower, call.sender, L.amount,
                             call.lenderFee, call.borrowerFee))
    /\ guard' = "NOT_ENTERED"
    /\ call' = Idle
    /\ saved' = NoSnapshot
    /\ last' = Outcome("fundLoan", call.sender, call.loanId, call.value, <<>>,
                       "ok", FALSE)
    /\ now' = now + 1
    /\ UNCHANGED <<userLoans, creditScores, lenderFeeBps, borrowerFeeBps,
                   treasury, paused, balance>>

\* ----- rejectLoan ----------------------------------------------------------
rejectLoanError_WhilePaused(loanId) ==
    IF ~(loanId < Len(loans)) THEN "LoanNotFound"
    ELSE IF loans[loanId + 1].status # Pending THEN "NotPending"
    ELSE "ok"

rejectLoanError_AnyStatus(loanId) ==
    IF paused THEN "Paused"
    ELSE IF ~(loanId < Len(loans)) THEN "LoanNotFound"
    ELSE "ok"

rejectLoanError_UnlessTerminal(loanId) ==
    IF paused THEN "Paused"
    ELSE IF ~(loanId < Len(loans)) THEN "LoanNotFound"
    ELSE IF loans[loanId + 1].status \in {Repaid, Rejected} THEN "NotPending"
    ELSE "ok"

rejectLoanError(loanId) ==
    IF paused THEN "Paused"
    ELSE IF ~(loanId < Len(loans)) THEN "LoanNotFound"
    ELSE IF loans[loanId + 1].status # Pending THEN "NotPending"
    ELSE "ok"

rejectLoan_OwnerOrBorrower(sender, loanId) ==
    /\ CanCall(sender)
    /\ LET err == IF rejectLoanError(loanId) = "ok"
                     /\ sender \notin {Owner, loans[loanId + 1].borrower}
                  THEN "Unauthorized" ELSE rejectLoanError(loanId)
       IN  /\ last' = IF err # "ok" THEN Failure("rejectLoan", sender, loanId, 0, <<>>, err)
                       ELSE Outcome("rejectLoan", sender, loanId, 0, <<>>, "ok", Nested)
           /\ IF err # "ok"
              THEN Mined /\ Counted /\ UNCHANGED <<storage, saved>>
              ELSE /\ loans' = [loans EXCEPT ![loanId + 1].status = Rejected]
                   /\ events' = Append(events,
                          LoanRejected(loanId, loans[loanId + 1].borrower))
                   /\ Mined
                   /\ Counted
                   /\ UNCHANGED <<userLoans, creditScores, lenderFeeBps,
                                  borrowerFeeBps, treasury, paused, guard,
                                  balance, saved>>

rejectLoan(sender, loanId) ==
    /\ CanCall(sender)
    /\ LET err == rejectLoanError(loanId)
       IN  /\ last' = IF err # "ok" THEN Failure("rejectLoan", sender, loanId, 0, <<>>, err)
                       ELSE Outcome("rejectLoan", sender, loanId, 0, <<>>, "ok", Nested)
           /\ IF err # "ok"
              THEN Mined /\ Counted /\ UNCHANGED <<storage, saved>>
              ELSE /\ loans' = [loans EXCEPT ![loanId + 1].status = Rejected]
                   /\ events' = Append(events,
                          LoanRejected(loanId, loans[loanId + 1].borrower))
                   /\ Mined
                   /\ Counted
                   /\ UNCHANGED <<userLoans, creditScores, lenderFeeBps,
                                  borrowerFeeBps, treasury, paused, guard,
                                  balance, saved>>

\* ----- repayLoan -----------------------------------------------------------
repayLoanError_AnyCaller(sender, loanId, value) ==
    IF guard = "ENTERED" THEN "Reentrant"
    ELSE IF paused THEN "Paused"
    ELSE IF ~(loanId < Len(loans)) THEN "LoanNotFound"
    ELSE IF loans[loanId + 1].status # Approved THEN "NotApproved"
    ELSE IF ~(value >= loans[loanId + 1].amount) THEN "InsufficientValue"
    ELSE IF loans[loanId + 1].lender = NONE THEN "NoLender"
    ELSE "ok"

repayLoanError(sender, loanId, value) ==
    IF guard = "ENTERED" THEN "Reentrant"
    ELSE IF paused THEN "Paused"
    ELSE IF ~(loanId < Len(loans)) THEN "LoanNotFound"
    ELSE IF loans[loanId + 1].borrower # sender THEN "NotBorrower"
    ELSE IF loans[loanId + 1].status # Approved THEN "NotApproved"
    ELSE IF ~(value >= loans[loanId + 1].amount) THEN "InsufficientValue"
    ELSE IF loans[loanId + 1].lender = NONE THEN "NoLender"
    ELSE "ok"

\* The values a borrower may attach: the principal, one less, five more.
RepayValues(loanId) ==
    IF loanId < Len(loans)
    THEN LET a == loans[loanId + 1].amount IN {a - 1, a, a + 5} \cap Nat
    ELSE {0}

Extra_Kept(value, amount) == 0

Extra(value, amount) == value - amount

Scored_Down(scores, who) == [scores EXCEPT ![who] = @ - CREDIT_INCREMENT]

Scored_Unit(scores, who) == [scores EXCEPT ![who] = @ + 1]

\* creditScores[msg.sender] += 10 (line 189).
Scored(scores, who) == [scores EXCEPT ![who] = @ + CREDIT_INCREMENT]

\* Entry of repayLoan up to and including the transfer to the lender
\* (lines 172-192).
repayLoan(sender, loanId, value) ==
    /\ CanCall(sender)
    /\ balance[sender] >= value
    /\ LET err == repayLoanError(sender, loanId, value)
       IN  IF err # "ok"
           THEN /\ last' = Failure("repayLoan", sender, loanId, value, <<>>, err)
                /\ Mined /\ Counted /\ UNCHANGED <<storage, saved>>
           ELSE LET L == loans[loanId + 1]
                IN  /\ saved' = Snapshot
                    /\ guard' = "ENTERED"
                    /\ loans' = [loans EXCEPT ![loanId + 1].status = Repaid]
                    /\ creditScores' = Scored(creditScores, sender)
                    /\ balance' = Pay(Receive(balance, sender, value),
                                      L.lender, L.amount)
                    /\ call' = [op |-> "repayLoan", pc |-> "repay_lender",
                                loanId |-> loanId, sender |-> sender,
                                value |-> value, lenderFee |-> 0,
                                borrowerFee |-> 0, hook |-> L.lender, made |-> 0]
                    /\ UNCHANGED <<userLoans, lenderFeeBps, borrowerFeeBps,
                                   treasury, paused, events, now, last>>

repayLoanReturn_GuardHeld ==
    /\ guard' = guard
    /\ call' = Idle
    /\ saved' = NoSnapshot
    /\ last' = Outcome("repayLoan", call.sender, call.loanId, call.value, <<>>,
                       "ok", FALSE)
    /\ now' = now + 1

\* The return of repayLoan (line 203).
repayLoanReturn ==
    /\ guard' = "NOT_ENTERED"
    /\ call' = Idle
    /\ saved' = NoSnapshot
    /\ last' = Outcome("repayLoan", call.sender, call.loanId, call.value, <<>>,
                       "ok", FALSE)
    /\ now' = now + 1

\* ok is true: LoanRepaid is emitted and the excess, if any, is sent back
\* (lines 193-200); without excess the call returns.
repayLoanRefund ==
    /\ call.pc = "repay_lender"
    /\ LET L == loans[call.loanId + 1]
           extra == Extra(call.value, L.amount)
       IN  /\ events' = Append(events,
                  LoanRepaid(call.loanId, L.borrower, L.lender, L.amount))
           /\ IF extra > 0
              THEN /\ balance' = Pay(balance, call.sender, extra)
                   /\ call' = [call EXCEPT !.pc = "repay_refund",
                                           !.hook = call.sender, !.made = 0]
                   /\ UNCHANGED <<guard, saved, last, now>>
              ELSE /\ repayLoanReturn
                   /\ UNCHANGED balance
    /\ UNCHANGED <<loans, userLoans, creditScores, lenderFeeBps, borrowerFeeBps,
                   treasury, paused>>

\* ok2 is true: the call returns (lines 201-203).
repayLoanFinish ==
    /\ call.pc = "repay_refund"
    /\ repayLoanReturn
    /\ UNCHANGED <<loans, userLoans, creditScores, lenderFeeBps, borrowerFeeBps,
                   treasury, paused, balance, events>>

\* ----- a recipient refuses the value: require(ok, ...) reverts --------------
Revert_KeepingPayouts ==
    /\ loans' = saved.loans
    /\ userLoans' = saved.userLoans
    /\ creditScores' = saved.creditScores
    /\ lenderFeeBps' = saved.lenderFeeBps
    /\ borrowerFeeBps' = saved.borrowerFeeBps
    /\ treasury' = saved.treasury
    /\ paused' = saved.paused
    /\ guard' = saved.guard
    /\ balance' = balance
    /\ events' = saved.events

Revert_KeepingEffects ==
    /\ loans' = loans
    /\ userLoans' = saved.userLoans
    /\ creditScores' = creditScores
    /\ lenderFeeBps' = saved.lenderFeeBps
    /\ borrowerFeeBps' = saved.borrowerFeeBps
    /\ treasury' = saved.treasury
    /\ paused' = saved.paused
    /\ guard' = saved.guard
    /\ balance' = saved.balance
    /\ events' = saved.events

Revert_KeepingScore ==
    /\ loans' = saved.loans
    /\ userLoans' = saved.userLoans
    /\ creditScores' = creditScores
    /\ lenderFeeBps' = saved.lenderFeeBps
    /\ borrowerFeeBps' = saved.borrowerFeeBps
    /\ treasury' = saved.treasury
    /\ paused' = saved.paused
    /\ guard' = saved.guard
    /\ balance' = saved.balance
    /\ events' = saved.events

Revert ==
    /\ loans' = saved.loans
    /\ userLoans' = saved.userLoans
    /\ creditScores' = saved.creditScores
    /\ lenderFeeBps' = saved.lenderFeeBps
    /\ borrowerFeeBps' = saved.borrowerFeeBps
    /\ treasury' = saved.treasury
    /\ paused' = saved.paused
    /\ guard' = saved.guard
    /\ balance' = saved.balance
    /\ events' = saved.events

transferFailed ==
    /\ Nested
    /\ call.hook # Owner
    /\ Revert
    /\ call' = Idle
    /\ saved' = NoSnapshot
    /\ last' = Outcome(call.op, call.sender, call.loanId, call.value,
                       <<call.pc>>, "TransferFailed", FALSE)
    /\ now' = now + 1

\* ----- approveLoan (deprecated owner approval) -----------------------------
approveLoanError(sender, loanId) ==
    IF sender # Owner THEN "Unauthorized"
    ELSE IF paused THEN "Paused"
    ELSE IF ~(loanId < Len(loans)) THEN "LoanNotFound"
    ELSE IF loans[loanId + 1].status # Pending THEN "NotPending"
    ELSE "ok"

approveLoan_AsLender(sender, loanId) ==
    /\ CanAdminister(sender)
    /\ LET err == approveLoanError(sender, loanId)
       IN  /\ last' = IF err # "ok" THEN Failure("approveLoan", sender, loanId, 0, <<>>, err)
                       ELSE Outcome("approveLoan", sender, loanId, 0, <<>>, "ok", Nested)
           /\ IF err # "ok"
              THEN Mined /\ Counted /\ UNCHANGED <<storage, saved>>
              ELSE /\ loans' = [loans EXCEPT
                         ![loanId + 1].status = Approved,
                         ![loanId + 1].lender = sender,
                         ![loanId + 1].dueDate = DueDate(now, loans[loanId + 1].duration)]
                   /\ Mined
                   /\ UNCHANGED <<userLoans, creditScores, lenderFeeBps,
                                  borrowerFeeBps, treasury, paused, guard,
                                  balance, events, call, saved>>

approveLoan(sender, loanId) ==
    /\ CanAdminister(sender)
    /\ LET err == approveLoanError(sender, loanId)
       IN  /\ last' = IF err # "ok" THEN Failure("approveLoan", sender, loanId, 0, <<>>, err)
                       ELSE Outcome("approveLoan", sender, loanId, 0, <<>>, "ok", Nested)
           /\ IF err # "ok"
              THEN Mined /\ Counted /\ UNCHANGED <<storage, saved>>
              ELSE /\ loans' = [loans EXCEPT
                         ![loanId + 1].status = Approved,
                         ![loanId + 1].dueDate = DueDate(now, loans[loanId + 1].duration)]
                   /\ Mined
                   /\ UNCHANGED <<userLoans, creditScores, lenderFeeBps,
                                  borrowerFeeBps, treasury, paused, guard,
                                  balance, events, call, saved>>

\* ----- admin controls ------------------------------------------------------
setFeesError_EitherInRange(sender, l, b) ==
    IF sender # Owner THEN "Unauthorized"
    ELSE IF ~(l <= MAX_FEE_BPS \/ b <= MAX_FEE_BPS) THEN "FeeTooHigh"
    ELSE "ok"

setFeesError(sender, l, b) ==
    IF sender # Owner THEN "Unauthorized"
    ELSE IF ~(l <= MAX_FEE_BPS /\ b <= MAX_FEE_BPS) THEN "FeeTooHigh"
    ELSE "ok"

setFees(sender, l, b) ==
    /\ CanAdminister(sender)
    /\ LET err == setFeesError(sender, l, b)
       IN  /\ last' = IF err # "ok" THEN Failure("setFees", sender, 0, 0, <<l, b>>, err)
                       ELSE Outcome("setFees", sender, 0, 0, <<l, b>>, "ok", Nested)
           /\ IF err # "ok"
              THEN Mined /\ Counted /\ UNCHANGED <<storage, saved>>
              ELSE /\ lenderFeeBps' = l
                   /\ borrowerFeeBps' = b
                   /\ Mined
                   /\ UNCHANGED <<loans, userLoans, creditScores, treasury,
                                  paused, guard, balance, events, call, saved>>

setTreasuryError_AnyCaller(sender, t) ==
    IF t = NONE THEN "InvalidTreasury"
    ELSE "ok"

setTreasuryError(sender, t) ==
    IF sender # Owner THEN "Unauthorized"
    ELSE IF t = NONE THEN "InvalidTreasury"
    ELSE "ok"

setTreasury(sender, t) ==
    /\ CanAdminister(sender)
    /\ LET err == setTreasuryError(sender, t)
       IN  /\ last' = IF err # "ok" THEN Failure("setTreasury", sender, 0, 0, <<t>>, err)
                       ELSE Outcome("setTreasury", sender, 0, 0, <<t>>, "ok", Nested)
           /\ IF err # "ok"
              THEN Mined /\ Counted /\ UNCHANGED <<storage, saved>>
              ELSE /\ treasury' = t
                   /\ Mined
                   /\ UNCHANGED <<loans, userLoans, creditScores, lenderFeeBps,
                                  borrowerFeeBps, paused, guard, balance, events,
                                  call, saved>>

pauseError(sender) ==
    IF sender # Owner THEN "Unauthorized"
    ELSE IF paused THEN "Paused"
    ELSE "ok"

pause(sender) ==
    /\ CanAdminister(sender)
    /\ LET err == pauseError(sender)
       IN  /\ last' = IF err # "ok" THEN Failure("pause", sender, 0, 0, <<>>, err)
                       ELSE Outcome("pause", sender, 0, 0, <<>>, "ok", Nested)
           /\ IF err # "ok"
              THEN Mined /\ Counted /\ UNCHANGED <<storage, saved>>
              ELSE /\ paused' = TRUE
                   /\ Mined
                   /\ UNCHANGED <<loans, userLoans, creditScores, lenderFeeBps,
                                  borrowerFeeBps, treasury, guard, balance,
                                  events, call, saved>>

unpauseError(sender) ==
    IF sender # Owner THEN "Unauthorized"
    ELSE IF ~paused THEN "NotPaused"
    ELSE "ok"

unpause(sender) ==
    /\ CanAdminister(sender)
    /\ LET err == unpauseError(sender)
       IN  /\ last' = IF err # "ok" THEN Failure("unpause", sender, 0, 0, <<>>, err)
                       ELSE Outcome("unpause", sender, 0, 0, <<>>, "ok", Nested)
           /\ IF err # "ok"
              THEN Mined /\ Counted /\ UNCHANGED <<storage, saved>>
              ELSE /\ paused' = FALSE
                   /\ Mined
                   /\ UNCHANGED <<loans, userLoans, creditScores, lenderFeeBps,
                                  borrowerFeeBps, treasury, guard, balance,
                                  events, call, saved>>

\* ----- views ---------------------------------------------------------------
getLoanCount == Len(loans)

getLoan(loanId) == loans[loanId + 1]

getUserLoanCount(user) == Len(userLoans[user])

getUserLoanAtIndex(user, index) == loans[userLoans[user][index + 1] + 1]

getUserCreditScore(user) == creditScores[user]

Next ==
    \/ \E s \in Users, r \in RequestInputs :
          requestLoan(s, r[1], r[2], r[3]) /\ UNCHANGED browser
    \/ \E s \in Users, id \in LoanIds : \E v \in FundValues(id) :
          fundLoan(s, id, v) /\ UNCHANGED browser
    \/ fundLoanLeg2 /\ UNCHANGED browser
    \/ fundLoanLeg3 /\ UNCHANGED browser
    \/ fundLoanFinish /\ UNCHANGED browser
    \/ \E s \in Accounts, id \in LoanIds : rejectLoan(s, id) /\ UNCHANGED browser
    \/ \E s \in Users, id \in LoanIds : \E v \in RepayValues(id) :
          repayLoan(s, id, v) /\ UNCHANGED browser
    \/ repayLoanRefund /\ UNCHANGED browser
    \/ repayLoanFinish /\ UNCHANGED browser
    \/ transferFailed /\ UNCHANGED browser
    \/ \E s \in Accounts, id \in LoanIds : approveLoan(s, id) /\ UNCHANGED browser
    \/ \E s \in Accounts, f \in FeeInputs : setFees(s, f[1], f[2]) /\ UNCHANGED browser
    \/ \E s \in Accounts, t \in TreasuryInputs : setTreasury(s, t) /\ UNCHANGED browser
    \/ \E s \in Accounts : pause(s) /\ UNCHANGED browser
    \/ \E s \in Accounts : unpause(s) /\ UNCHANGED browser

Spec == Init /\ [][Next]_vars

\* ----- the lender's client (scripts/fundLoanNode.js, app/Lender/page.tsx) ----
\* The client reads the loan's amount and lenderFeeBps and computes the value
\* to send: required = amount + amount * lenderFeeBps / 10000.
clientRead(lender, loanId) ==
    /\ ~Nested
    /\ quote = NoQuote
    /\ loanId < Len(loans)
    /\ LET amount == getLoan(loanId).amount
           lenderFee == (amount * lenderFeeBps) \div BPS_DENOMINATOR
       IN  quote' = Quote(lender, loanId, amount, lenderFeeBps, amount + lenderFee)
    /\ UNCHANGED <<storage, now, call, saved, last, localStorage, did>>

\* The client sends fundLoan(loanId, {value: required}).
clientFund ==
    /\ quote # NoQuote
    /\ fundLoan(quote.lender, quote.loanId, quote.required)
    /\ quote' = NoQuote
    /\ UNCHANGED <<localStorage, did>>

\* The rates the administrator may set while a client is between its read
\* and its transaction: one that changes the fee of the loan, one that does not.
RaceFeeInputs == {<<1000, 1000>>, <<101, 50>>}

NextRace ==
    \/ \E s \in Users, r \in RequestInputs :
          requestLoan(s, r[1], r[2], r[3]) /\ UNCHANGED browser
    \/ \E s \in Accounts, f \in RaceFeeInputs : setFees(s, f[1], f[2]) /\ UNCHANGED browser
    \/ \E s \in Users, id \in LoanIds : clientRead(s, id)
    \/ clientFund
    \/ fundLoanLeg2 /\ UNCHANGED browser
    \/ fundLoanLeg3 /\ UNCHANGED browser
    \/ fundLoanFinish /\ UNCHANGED browser
    \/ \E s \in Accounts, id \in LoanIds : rejectLoan(s, id) /\ UNCHANGED browser
    \/ transferFailed /\ UNCHANGED browser

SpecRace == Init /\ [][NextRace]_vars

\* ----- fee arithmetic over principals around the rounding thresholds --------
\* Principals just below and at 10000/bps for the rates below, and rates from
\* nothing to the cap and one beyond it.
Principals == {1, 9, 10, 199, 200}

BorrowerRates == {0, MAX_FEE_BPS, MAX_FEE_BPS + 1}

NextFee ==
    \/ \E s \in Users, P \in Principals :
          requestLoan(s, P, 1, "seed") /\ UNCHANGED browser
    \/ \E b \in BorrowerRates :
          setFees(Owner, DEFAULT_LENDER_FEE_BPS, b) /\ UNCHANGED browser
    \/ \E s \in Users, id \in LoanIds : \E v \in FundValues(id) :
          fundLoan(s, id, v) /\ UNCHANGED browser
    \/ fundLoanLeg2 /\ UNCHANGED browser
    \/ fundLoanLeg3 /\ UNCHANGED browser
    \/ fundLoanFinish /\ UNCHANGED browser
    \/ transferFailed /\ UNCHANGED browser

SpecFee == Init /\ [][NextFee]_vars

\* ----- utils/rejectedLoans.ts ------------------------------------------------
\* Strings are sequences of characters; a chain id handed to the helpers is
\* null (or undefined), a number or a string.
MaxStoreCalls == 3

Null == [kind |-> "null"]

Num(n) == [kind |-> "number", n |-> n]

Str(s) == [kind |-> "string", s |-> s]

NetworkInputs ==
    {Null, Num(10), Str(<<"1", "0">>), Str(<<"0", "x", "a">>),
     Str(<<"0", "x", "A">>), Str(<<"0", "X", "a">>), Num(1)}

ContractInputs ==
    {<<"0", "x", "A", "b">>, <<"0", "x", "a", "b">>, <<"0", "x", "c", "d">>}

MarkIds == {7, 8}

DecimalChars == <<"0", "1", "2", "3", "4", "5", "6", "7", "8", "9">>

HexLower == <<"a", "b", "c", "d", "e", "f">>

HexUpper == <<"A", "B", "C", "D", "E", "F">>

\* Number.prototype.toString / BigInt.prototype.toString of a natural number.
RECURSIVE toString(_)
toString(n) ==
    IF n < 10 THEN <<DecimalChars[n + 1]>>
    ELSE toString(n \div 10) \o <<DecimalChars[(n % 10) + 1]>>

\* String(v) of a number or a string.
StringOf(v) == IF v.kind = "number" THEN toString(v.n) ELSE v.s

startsWith0x(s) == Len(s) >= 2 /\ s[1] = "0" /\ s[2] \in {"x", "X"}

HexDigit(c) ==
    IF \E d \in 1..10 : DecimalChars[d] = c
    THEN (CHOOSE d \in 1..10 : DecimalChars[d] = c) - 1
    ELSE IF \E d \in 1..6 : HexLower[d] = c
    THEN (CHOOSE d \in 1..6 : HexLower[d] = c) + 9
    ELSE IF \E d \in 1..6 : HexUpper[d] = c
    THEN (CHOOSE d \in 1..6 : HexUpper[d] = c) + 9
    ELSE -1

\* BigInt(s) of a string that starts with 0x or 0X: the value of its hex
\* digits, or -1 where BigInt throws a SyntaxError.
RECURSIVE HexValue(_)
HexValue(digits) ==
    IF digits = <<>> THEN 0
    ELSE LET d == HexDigit(digits[Len(digits)])
             rest == HexValue(SubSeq(digits, 1, Len(digits) - 1))
         IN  IF d < 0 \/ rest < 0 THEN -1 ELSE rest * 16 + d

BigInt(s) ==
    IF Len(s) <= 2 THEN -1 ELSE HexValue(SubSeq(s, 3, Len(s)))

toLowerCase(s) ==
    [i \in 1..Len(s) |->
        IF \E d \in 1..6 : HexUpper[d] = s[i]
        THEN HexLower[CHOOSE d \in 1..6 : HexUpper[d] = s[i]]
        ELSE IF s[i] = "X" THEN "x" ELSE s[i]]

normalizeAddress(a) == toLowerCase(a)

\* Returns Null for a missing chain id, else the string of decimal digits
\* (a hex string that BigInt cannot read is returned as it is).
normalizeChainIdDecimal(chainId) ==
    IF chainId.kind = "null" THEN Null
    ELSE LET str == StringOf(chainId)
         IN  IF startsWith0x(str)
             THEN IF BigInt(str) >= 0 THEN Str(toString(BigInt(str))) ELSE Str(str)
             ELSE Str(str)

StorageKey(id, addr) == <<"rejectedLoans:">> \o id \o <<":">> \o addr

candidateKeysFor(networkIdRaw, contractAddressRaw) ==
    LET addr == normalizeAddress(contractAddressRaw)
        dec == normalizeChainIdDecimal(networkIdRaw)
        k1 == IF dec.kind # "null" /\ dec.s # <<>>
              THEN <<StorageKey(dec.s, addr)>> ELSE <<>>
        k2 == IF networkIdRaw.kind = "string" /\ startsWith0x(networkIdRaw.s)
              THEN <<StorageKey(networkIdRaw.s, addr)>> ELSE <<>>
        k3 == IF networkIdRaw.kind # "null" /\ Str(StringOf(networkIdRaw)) # dec
              THEN <<StorageKey(StringOf(networkIdRaw), addr)>> ELSE <<>>
    IN  k1 \o k2 \o k3

\* localStorage.getItem: the stored text as a string value, or Null.
getItem(ls, k) == IF k \in DOMAIN ls THEN Str(ls[k]) ELSE Null

setItem(ls, k, text) == (k :> text) @@ ls

removeItem(ls, k) == [j \in DOMAIN ls \ {k} |-> ls[j]]

\* JSON.stringify of a map whose keys are canonical integers: the keys in
\* ascending order, each with its value true. JSON.parse gives the map back,
\* here the set of its keys. The text of a map is never the empty string, so
\* `!raw` is true of a missing item only.
RECURSIVE JSONstringify(_)
JSONstringify(map) ==
    IF map = {} THEN <<>>
    ELSE LET least == CHOOSE m \in map : \A o \in map : m <= o
         IN  <<<<toString(least), TRUE>>>> \o JSONstringify(map \ {least})

RECURSIVE DecimalValue(_)
DecimalValue(digits) ==
    IF digits = <<>> THEN 0
    ELSE DecimalValue(SubSeq(digits, 1, Len(digits) - 1)) * 10
            + HexDigit(digits[Len(digits)])

JSONparse(text) ==
    {DecimalValue(text[i][1]) : i \in {j \in 1..Len(text) : text[j][2]}}

\* The map of the first candidate key that holds one (lines 33-51).
RECURSIVE FirstMap(_, _)
FirstMap(ls, keys) ==
    IF keys = <<>> THEN {}
    ELSE IF getItem(ls, keys[1]) = Null
    THEN FirstMap(ls, Tail(keys))
    ELSE JSONparse(getItem(ls, keys[1]).s)

getRejectedMap(ls, networkIdRaw, contractAddressRaw) ==
    IF contractAddressRaw = <<>> THEN {}
    ELSE FirstMap(ls, candidateKeysFor(networkIdRaw, contractAddressRaw))

isLoanRejected(ls, networkIdRaw, contractAddressRaw, loanId) ==
    loanId \in getRejectedMap(ls, networkIdRaw, contractAddressRaw)

\* map[String(loanId)] = true merged into the map stored under each key in turn.
RECURSIVE MergeInto(_, _, _)
MergeInto(ls, keys, loanId) ==
    IF keys = <<>> THEN ls
    ELSE LET raw == getItem(ls, keys[1])
             map == IF raw = Null THEN {} ELSE JSONparse(raw.s)
         IN  MergeInto(setItem(ls, keys[1], JSONstringify(map \cup {loanId})),
                       Tail(keys), loanId)

markLoanRejected(networkIdRaw, contractAddressRaw, loanId) ==
    /\ did.n < MaxStoreCalls
    /\ LET addr == normalizeAddress(contractAddressRaw)
           keys == candidateKeysFor(networkIdRaw, contractAddressRaw)
       IN  localStorage' =
              IF contractAddressRaw = <<>> THEN localStorage
              ELSE IF Len(keys) = 0
              THEN MergeInto(localStorage,
                             <<StorageKey(<<"unknown">>, addr)>>, loanId)
              ELSE MergeInto(localStorage, keys, loanId)
    /\ did' = StoreCall("markLoanRejected", networkIdRaw, contractAddressRaw,
                        loanId, did.n + 1)

RECURSIVE RemoveAll(_, _)
RemoveAll(ls, keys) ==
    IF keys = <<>> THEN ls
    ELSE RemoveAll(removeItem(ls, keys[1]), Tail(keys))

clearRejectedFor(networkIdRaw, contractAddressRaw) ==
    /\ did.n < MaxStoreCalls
    /\ localStorage' =
          RemoveAll(localStorage, candidateKeysFor(networkIdRaw, contractAddressRaw))
    /\ did' = StoreCall("clearRejectedFor", networkIdRaw, contractAddressRaw,
                        0, did.n + 1)

NextStore ==
    \/ \E n \in NetworkInputs, a \in ContractInputs, id \in MarkIds :
          markLoanRejected(n, a, id) /\ UNCHANGED <<storage, now, call, saved, last, quote>>
    \/ \E n \in NetworkInputs, a \in ContractInputs :
          clearRejectedFor(n, a) /\ UNCHANGED <<storage, now, call, saved, last, quote>>

SpecStore == Init /\ [][NextStore]_vars

\* ----- the read path: loans rebuilt from the event log (loans-list.tsx) ------
\* The numeric value of a LoanStatus (enum LoanStatus, Microfinance.sol).
StatusCode(status) ==
    CASE status = Pending -> 0
      [] status = Approved -> 1
      [] status = Repaid -> 2
      [] status = Rejected -> 3

\* The status column of `temp` after the logs es have been parsed in order
\* for `account`: LoanRequested of the account creates the row with status 0,
\* LoanFunded (or LoanApproved) sets 1, LoanRepaid 2, LoanRejected 3 on a row
\* that exists.
RECURSIVE LoansFromEvents(_, _)
LoansFromEvents(es, account) ==
    IF es = <<>>
    THEN <<>>
    ELSE LET temp == LoansFromEvents(SubSeq(es, 1, Len(es) - 1), account)
             e == es[Len(es)]
             id == e.loanId
         IN  IF e.type = "LoanRequested"
             THEN IF e.borrower # account THEN temp
                  ELSE (id :> 0) @@ temp
             ELSE IF e.type \in {"LoanFunded", "LoanApproved"}
             THEN IF id \in DOMAIN temp THEN [temp EXCEPT ![id] = 1] ELSE temp
             ELSE IF e.type = "LoanRepaid"
             THEN IF id \in DOMAIN temp THEN [temp EXCEPT ![id] = 2] ELSE temp
             ELSE IF e.type = "LoanRejected"
             THEN IF id \in DOMAIN temp THEN [temp EXCEPT ![id] = 3] ELSE temp
             ELSE temp

\* ===== Properties ==========================================================

LegalMoves ==
    {<<Pending, Approved>>, <<Pending, Rejected>>, <<Approved, Repaid>>}

\* The step that rolls the transaction in progress back.
RevertStep ==
    call.pc # "idle" /\ call'.pc = "idle" /\ last'.result = "TransferFailed"

\* The step on which fundLoan / repayLoan returns successfully.
FundReturns ==
    call.op = "fundLoan" /\ call'.pc = "idle" /\ last'.result = "ok"

RepayReturns ==
    call.op = "repayLoan" /\ call'.pc = "idle" /\ last'.result = "ok"

\* A call that failed one of its checks returned on this step.
CheckFailed ==
    call'.pc = call.pc /\ last'.result # "ok"

HasEvent(type, loanId) ==
    \E i \in 1..Len(events) : events[i].type = type /\ events[i].loanId = loanId

HasEventAfter(type, loanId) ==
    \E i \in 1..Len(events') : events'[i].type = type /\ events'[i].loanId = loanId

Floor(principal, bps) == (principal * bps) \div 10000

\* C1: on every step that is kept (also the steps of calls made from a receipt
\* hook while fundLoan or repayLoan is in progress) a loan's status stays or
\* moves Pending->Approved, Pending->Rejected or Approved->Repaid, so Rejected
\* and Repaid are never left.
C1_StatusMoves ==
    [][RevertStep \/
       \A i \in 1..Len(loans) :
          i <= Len(loans') =>
             \/ loans'[i].status = loans[i].status
             \/ <<loans[i].status, loans'[i].status>> \in LegalMoves]_vars

\* C2: no requestLoan, fundLoan, rejectLoan or repayLoan called from a receipt
\* hook during the transfers of fundLoan or repayLoan succeeds.
C2_NoNestedSuccess ==
    ~(/\ last.nested
      /\ last.result = "ok"
      /\ last.op \in {"requestLoan", "fundLoan", "rejectLoan", "repayLoan"})

\* C3: a successful fundLoan of a loan with principal P under the rates L, B
\* of the time of the call took valueSent = P + floor(P*L/10000), paid the
\* borrower P - floor(P*B/10000) and the treasury floor(P*L/10000) +
\* floor(P*B/10000), and the two receipts add up to valueSent.
C3_FundConservation ==
    [][FundReturns =>
       LET L == saved.loans[call.loanId + 1]
           P == L.amount
           lf == Floor(P, saved.lenderFeeBps)
           bf == Floor(P, saved.borrowerFeeBps)
       IN  /\ call.value = P + lf
           /\ (P - bf) + (lf + bf) = call.value
           /\ \A a \in Accounts :
                 balance'[a] - saved.balance[a] =
                      (IF a = L.borrower THEN P - bf ELSE 0)
                    + (IF a = saved.treasury THEN lf + bf ELSE 0)
                    - (IF a = call.sender THEN call.value ELSE 0)]_vars

C3_Witness ==
    /\ last.op = "fundLoan" /\ last.result = "ok"
    /\ events[Len(events)].type = "LoanFunded"
    /\ events[Len(events)].lenderFee > 0
    /\ events[Len(events)].borrowerFee > 0
    /\ (events[Len(events)].amount * DEFAULT_LENDER_FEE_BPS) % BPS_DENOMINATOR # 0

\* C4: a successful repayLoan with valueSent >= principal paid the recorded
\* lender exactly principal and the caller exactly valueSent - principal (no
\* refund transfer when they are equal), and left nothing with the ledger.
C4_RepayRefund ==
    [][RepayReturns =>
       LET L == saved.loans[call.loanId + 1]
           P == L.amount
       IN  /\ call.value >= P
           /\ (call.pc = "repay_refund") = (call.value > P)
           /\ balance'[Ledger] = saved.balance[Ledger]
           /\ \A a \in Accounts :
                 balance'[a] - saved.balance[a] =
                      (IF a = L.lender THEN P ELSE 0)
                    + (IF a = call.sender THEN (call.value - P) - call.value ELSE 0)]_vars

C4_Witness ==
    /\ last.op = "repayLoan" /\ last.result = "ok"
    /\ last.value > loans[last.loanId + 1].amount
    /\ loans[last.loanId + 1].status = Repaid
    /\ loans[last.loanId + 1].lender # loans[last.loanId + 1].borrower

\* C5: when the recipient of any of fundLoan's three transfers refuses it,
\* fundLoan fails with TransferFailed and nothing is changed: the loan is
\* Pending with lender none and its previous dueDate, no LoanFunded event
\* names it, and every balance is what it was before the call.
C5_FundRollback ==
    [][(RevertStep /\ call.op = "fundLoan") =>
       /\ last'.op = "fundLoan"
       /\ loans' = saved.loans
       /\ loans'[call.loanId + 1].status = Pending
       /\ loans'[call.loanId + 1].lender = NONE
       /\ loans'[call.loanId + 1].dueDate = saved.loans[call.loanId + 1].dueDate
       /\ ~HasEventAfter("LoanFunded", call.loanId)
       /\ events' = saved.events
       /\ balance' = saved.balance
       /\ userLoans' = saved.userLoans
       /\ creditScores' = saved.creditScores]_vars

C5_Witness ==
    /\ last.op = "fundLoan" /\ last.result = "TransferFailed"
    /\ last.args = <<"fund_leg3">>
    /\ loans[last.loanId + 1].status = Pending
    /\ last.value > loans[last.loanId + 1].amount

\* C6: when the lender refuses the principal or the caller refuses the refund,
\* repayLoan fails with TransferFailed and nothing is changed: the loan is
\* Approved, the borrower's creditScore is not incremented, no LoanRepaid
\* event names the loan and no balance has moved.
C6_RepayRollback ==
    [][(RevertStep /\ call.op = "repayLoan") =>
       /\ last'.op = "repayLoan"
       /\ loans' = saved.loans
       /\ loans'[call.loanId + 1].status = Approved
       /\ creditScores' = saved.creditScores
       /\ ~HasEventAfter("LoanRepaid", call.loanId)
       /\ events' = saved.events
       /\ balance' = saved.balance
       /\ userLoans' = saved.userLoans]_vars

C6_Witness ==
    /\ last.op = "repayLoan" /\ last.result = "TransferFailed"
    /\ last.args = <<"repay_refund">>
    /\ loans[last.loanId + 1].status = Approved
    /\ creditScores[loans[last.loanId + 1].borrower] = 0

\* C7: fundLoan, rejectLoan, repayLoan and approveLoan on a loan that is Repaid
\* or Rejected fail - with NotPending for fund, reject and approve and with
\* NotApproved for a repay by the borrower, when no earlier check (pause,
\* guard, owner) fails first - and a failed call changes no loan, index,
\* credit score or balance.
TerminalCallsFail ==
    \A id \in 0..(Len(loans) - 1) :
       loans[id + 1].status \in {Repaid, Rejected} =>
          /\ \A v \in FundValues(id) \cup RepayValues(id) :
                /\ fundLoanError(id, v) # "ok"
                /\ (~paused /\ guard = "NOT_ENTERED") => fundLoanError(id, v) = "NotPending"
                /\ \A s \in Accounts :
                      /\ repayLoanError(s, id, v) # "ok"
                      /\ (~paused /\ guard = "NOT_ENTERED" /\ s = loans[id + 1].borrower)
                            => repayLoanError(s, id, v) = "NotApproved"
          /\ rejectLoanError(id) # "ok"
          /\ ~paused => rejectLoanError(id) = "NotPending"
          /\ \A s \in Accounts :
                /\ approveLoanError(s, id) # "ok"
                /\ (~paused /\ s = Owner) => approveLoanError(s, id) = "NotPending"

\* The call that returned on this step named a loan that was Repaid or Rejected.
OnTerminalLoan ==
    /\ last' # last
    /\ last'.op \in {"fundLoan", "rejectLoan", "repayLoan", "approveLoan"}
    /\ last'.loanId < Len(loans)
    /\ loans[last'.loanId + 1].status \in {Repaid, Rejected}
    /\ ~(call.pc # "idle" /\ call'.pc = "idle")

C7_TerminalUntouched ==
    /\ []TerminalCallsFail
    /\ [][CheckFailed => UNCHANGED storage]_vars
    /\ [][OnTerminalLoan =>
            /\ CheckFailed
            /\ UNCHANGED <<loans, userLoans, creditScores, balance, events>>
            /\ (~paused /\ ~last'.nested /\ last'.op \in {"fundLoan", "rejectLoan"})
                  => last'.result = "NotPending"
            /\ (~paused /\ last'.op = "approveLoan" /\ last'.sender = Owner)
                  => last'.result = "NotPending"
            /\ (~paused /\ ~last'.nested /\ last'.op = "repayLoan"
                  /\ last'.sender = loans[last'.loanId + 1].borrower)
                  => last'.result = "NotApproved"]_vars

C7_Witness ==
    /\ last.op \in {"fundLoan", "rejectLoan", "approveLoan"}
    /\ last.result = "NotPending"
    /\ last.loanId < Len(loans)
    /\ loans[last.loanId + 1].status \in {Repaid, Rejected}

\* C8 (as stated): in every state every loan has lender none exactly when its
\* status is Pending or Rejected.
C8_LenderIffStatus ==
    \A i \in 1..Len(loans) :
       (loans[i].lender = NONE) <=> (loans[i].status \in {Pending, Rejected})

\* C8 (amended): a loan has lender none exactly when no fundLoan of it has
\* succeeded; a Pending or Rejected loan has lender none and a Repaid loan has
\* a lender, so the only loans with a status of Approved and lender none are
\* those approved through approveLoan.
C8_LenderIffFunded ==
    \A i \in 1..Len(loans) :
       /\ (loans[i].lender = NONE) <=> ~HasEvent("LoanFunded", i - 1)
       /\ loans[i].status \in {Pending, Rejected} => loans[i].lender = NONE
       /\ loans[i].status = Repaid => loans[i].lender # NONE

C8_Witness ==
    /\ \E i \in 1..Len(loans) : loans[i].status = Approved /\ loans[i].lender = NONE
    /\ \E i \in 1..Len(loans) : loans[i].status = Approved /\ loans[i].lender # NONE

\* C9: code that reads the ledger from inside a receipt hook never finds the
\* loan being funded still Pending with lender none once funding value has
\* been paid out, nor the loan being repaid already Repaid with the score
\* incremented while the lender has not received the principal.
C9_NoPartialState ==
    (Nested /\ call.hook # Owner) =>
       /\ call.op = "fundLoan" =>
             ~(/\ getLoan(call.loanId).status = Pending
               /\ getLoan(call.loanId).lender = NONE
               /\ balance[Ledger] < saved.balance[Ledger] + call.value)
       /\ call.op = "repayLoan" =>
             ~(/\ getLoan(call.loanId).status = Repaid
               /\ getUserCreditScore(call.sender) > saved.creditScores[call.sender]
               /\ balance[Ledger] = saved.balance[Ledger] + call.value)

\* C10: the k-th requestLoan that succeeds returns loanId k, also when it is
\* made from a receipt hook; the ids handed out are 0..loanCount-1, each once,
\* and loanCount grows by one with a successful requestLoan and by nothing
\* else (a transaction that is rolled back takes its requests with it).
RequestedIds ==
    SelectSeq(events, LAMBDA e : e.type = "LoanRequested")

IndexedIds(a) == {userLoans[a][j] : j \in 1..Len(userLoans[a])}

IdsDense ==
    /\ Len(RequestedIds) = getLoanCount
    /\ \A k \in 1..Len(RequestedIds) :
          /\ RequestedIds[k].loanId = k - 1
          /\ RequestedIds[k].borrower = getLoan(k - 1).borrower
    /\ UNION {IndexedIds(a) : a \in Accounts} = 0..(getLoanCount - 1)
    /\ \A a, b \in Accounts : a # b => IndexedIds(a) \cap IndexedIds(b) = {}
    /\ \A a \in Accounts : Cardinality(IndexedIds(a)) = getUserLoanCount(a)
    /\ (last.op = "requestLoan" /\ last.result = "ok") =>
          last.loanId = getLoanCount - 1

RequestReturned ==
    last' # last /\ last'.op = "requestLoan" /\ last'.result = "ok"

C10_IdDensity ==
    /\ []IdsDense
    /\ [][IF RevertStep
          THEN Len(loans') = Len(saved.loans)
          ELSE \/ RequestReturned /\ Len(loans') = Len(loans) + 1
               \/ ~RequestReturned /\ Len(loans') = Len(loans)]_vars

C10_Witness ==
    /\ getLoanCount = 2
    /\ last.op = "requestLoan" /\ last.result = "ok" /\ last.nested
    /\ last.loanId = 1

\* C11 (as stated): in every reachable state every loan whose status is
\* Pending has dueDate = 0.
C11_PendingUnset ==
    \A i \in 1..Len(loans) : loans[i].status = Pending => loans[i].dueDate = 0

\* C11 (amended): a Pending loan carries the non-zero dueDate requestLoan gave
\* it, (time of the request) + durationDays * 86400, and keeps it for as long
\* as it is Pending.
C11_PendingDueDate ==
    /\ [](\A i \in 1..Len(loans) :
             loans[i].status = Pending =>
                /\ loans[i].dueDate > 0
                /\ \E t \in 1..now : loans[i].dueDate = t + loans[i].duration * 86400)
    /\ [][\A i \in 1..Len(loans') :
             /\ i > Len(loans) =>
                   loans'[i].dueDate = now + loans'[i].duration * 86400
             /\ (i <= Len(loans) /\ loans[i].status = Pending
                   /\ loans'[i].status = Pending) =>
                   loans'[i].dueDate = loans[i].dueDate]_vars

C11_Witness ==
    \E i \in 1..Len(loans) :
       /\ loans[i].status = Pending
       /\ loans[i].dueDate = 1 + loans[i].duration * 86400
       /\ now >= 3

\* C12: every loan that is Approved or Repaid has a non-zero dueDate, and no
\* operation decreases the dueDate of a loan: the refresh on fundLoan and on
\* approveLoan yields a value >= the one set at the request.
C12_DueDateMonotone ==
    /\ [](\A i \in 1..Len(loans) :
             loans[i].status \in {Approved, Repaid} => loans[i].dueDate > 0)
    /\ [][\A i \in 1..Len(loans) :
             i <= Len(loans') => loans'[i].dueDate >= loans[i].dueDate]_vars

C12_Witness ==
    /\ last.op = "fundLoan" /\ last.result = "ok"
    /\ loans[last.loanId + 1].status = Approved
    /\ loans[last.loanId + 1].dueDate = (now - 1) + loans[last.loanId + 1].duration * 86400
    /\ loans[last.loanId + 1].dueDate > 1 + loans[last.loanId + 1].duration * 86400

\* C13: fundLoan on an existing Pending loan with a valueSent other than
\* principal + floor(principal * lenderFeeBps / 10000), lower or higher, fails
\* (with IncorrectValue when neither the pause nor the reentrancy guard stops
\* the call first); the loan stays Pending, nothing is paid to the borrower or
\* the treasury and an overpayment is not taken and refunded.
Price(id) == loans[id + 1].amount + Floor(loans[id + 1].amount, lenderFeeBps)

WrongValueRefused ==
    \A id \in 0..(Len(loans) - 1) :
       loans[id + 1].status = Pending =>
          \A v \in FundValues(id) :
             v # Price(id) =>
                /\ fundLoanError(id, v) # "ok"
                /\ (~paused /\ guard = "NOT_ENTERED") =>
                      fundLoanError(id, v) = "IncorrectValue"

C13_IncorrectValue ==
    /\ []WrongValueRefused
    /\ [][(/\ call.pc = "idle" /\ call'.pc = "fund_leg1") =>
             call'.value = Price(call'.loanId)]_vars
    /\ [][(CheckFailed /\ last'.result = "IncorrectValue") =>
             /\ last'.op = "fundLoan"
             /\ last'.value # Price(last'.loanId)
             /\ loans'[last'.loanId + 1].status = Pending
             /\ UNCHANGED storage]_vars

C13_Witness ==
    /\ last.op = "fundLoan" /\ last.result = "IncorrectValue"
    /\ last.value > Price(last.loanId)
    /\ loans[last.loanId + 1].status = Pending
    /\ \A a \in Accounts : balance[a] = InitialBalance

\* C14: when fundLoan(caller, loanId, valueSent) returns successfully the loan
\* is Approved with lender = caller and dueDate = (time of funding) +
\* durationDays * 86400, its other fields are those of the request, and the
\* call has emitted exactly one event, LoanFunded(loanId, borrower, caller,
\* principal, lenderFee, borrowerFee), as its last, whose fees are the amounts
\* the treasury received.
CountEvents(es, type, loanId) ==
    Cardinality({i \in 1..Len(es) : es[i].type = type /\ es[i].loanId = loanId})

C14_FundEffect ==
    [][FundReturns =>
       LET id == call.loanId
           R == saved.loans[id + 1]
           e == events'[Len(events')]
       IN  /\ loans'[id + 1] =
                 [R EXCEPT !.status = "Approved", !.lender = call.sender,
                           !.dueDate = now + R.duration * 86400]
           /\ last'.sender = call.sender /\ last'.loanId = id
           /\ Len(events') = Len(events) + 1
           /\ e = [type |-> "LoanFunded", loanId |-> id, borrower |-> R.borrower,
                   lender |-> call.sender, amount |-> R.amount, duration |-> 0,
                   lenderFee |-> Floor(R.amount, saved.lenderFeeBps),
                   borrowerFee |-> Floor(R.amount, saved.borrowerFeeBps)]
           /\ CountEvents(events', "LoanFunded", id) = 1
           /\ CountEvents(saved.events, "LoanFunded", id) = 0
           /\ \A a \in Accounts :
                 balance'[a] - saved.balance[a] =
                      (IF a = R.borrower THEN R.amount - e.borrowerFee ELSE 0)
                    + (IF a = saved.treasury THEN e.lenderFee + e.borrowerFee ELSE 0)
                    - (IF a = call.sender THEN e.amount + e.lenderFee ELSE 0)]_vars

C14_Witness ==
    /\ last.op = "fundLoan" /\ last.result = "ok"
    /\ loans[last.loanId + 1].status = Approved
    /\ loans[last.loanId + 1].lender = last.sender
    /\ events[Len(events)].lender = last.sender
    /\ events[Len(events)].lenderFee # events[Len(events)].borrowerFee
    /\ balance[treasury] = InitialBalance + events[Len(events)].lenderFee
                                          + events[Len(events)].borrowerFee

\* C15: repayLoan goes through only if the loan exists, the caller is its
\* borrower, it is Approved, valueSent >= principal and its lender is not
\* none; it fails with LoanNotFound for an unknown id and otherwise with
\* NotBorrower, NotApproved, InsufficientValue or NoLender for the first of
\* these conditions that does not hold (when the pause or the reentrancy
\* guard does not stop the call first), and a failed repayLoan changes no
\* loan, credit score or balance.
RepayConditions(s, id, v) ==
    <<id < Len(loans),
      id < Len(loans) /\ loans[id + 1].borrower = s,
      id < Len(loans) /\ loans[id + 1].status = "Approved",
      id < Len(loans) /\ v >= loans[id + 1].amount,
      id < Len(loans) /\ loans[id + 1].lender # "none">>

RepayErrors ==
    <<"LoanNotFound", "NotBorrower", "NotApproved", "InsufficientValue", "NoLender">>

RepayChecked ==
    \A id \in LoanIds, s \in Accounts :
       \A v \in RepayValues(id) :
          LET c == RepayConditions(s, id, v)
              err == repayLoanError(s, id, v)
          IN  /\ err = "ok" => \A k \in 1..5 : c[k]
              /\ (\E k \in 1..5 : ~c[k]) => err # "ok"
              /\ (~paused /\ guard = "NOT_ENTERED") =>
                    \A k \in 1..5 :
                       (~c[k] /\ \A j \in 1..(k - 1) : c[j]) => err = RepayErrors[k]

C15_RepayChecks ==
    /\ []RepayChecked
    /\ [][(call.pc = "idle" /\ call'.pc = "repay_lender") =>
             \A k \in 1..5 :
                RepayConditions(call'.sender, call'.loanId, call'.value)[k]]_vars
    /\ [][(CheckFailed /\ last'.op = "repayLoan") =>
             /\ UNCHANGED <<loans, creditScores, balance, userLoans, events>>
             /\ (~paused /\ ~last'.nested) =>
                   \E k \in 1..5 :
                      /\ last'.result = RepayErrors[k]
                      /\ ~RepayConditions(last'.sender, last'.loanId, last'.value)[k]]_vars

C15_Witness ==
    /\ last.op = "repayLoan" /\ last.result = "NoLender"
    /\ loans[last.loanId + 1].borrower = last.sender
    /\ loans[last.loanId + 1].status = Approved
    /\ loans[last.loanId + 1].lender = NONE
    /\ last.value >= loans[last.loanId + 1].amount
    /\ creditScores[last.sender] = 0

\* C16: a successful repayLoan sets the status of its loan to Repaid and
\* raises the creditScore of the loan's borrower by exactly 10. Its steps
\* change no other field of that loan, no other loan and no other account's
\* credit score, and when it returns the loan is the loan it found with status
\* Repaid and the credit scores are those it found with the borrower's + 10.
RepayEnters == call.pc = "idle" /\ call'.pc = "repay_lender"

RepayContinues == call.op = "repayLoan" /\ call'.op = "repayLoan"

RejectReturns == call'.pc = call.pc /\ last'.op = "rejectLoan"

C17_RejectAnyCaller ==
    [][RejectReturns =>
       IF paused
       THEN last'.result = "Paused" /\ UNCHANGED storage
       ELSE LET id == last'.loanId
            IN  IF ~(id < Len(loans))
                THEN last'.result = "LoanNotFound" /\ UNCHANGED storage
                ELSE IF loans[id + 1].status # "Pending"
                THEN last'.result = "NotPending" /\ UNCHANGED storage
                ELSE /\ last'.result = "ok"
                     /\ loans' = [loans EXCEPT ![id + 1].status = "Rejected"]
                     /\ events' = Append(events,
                           [type |-> "LoanRejected", loanId |-> id,
                            borrower |-> loans[id + 1].borrower, lender |-> "none",
                            amount |-> 0, duration |-> 0, lenderFee |-> 0,
                            borrowerFee |-> 0])
                     /\ UNCHANGED <<userLoans, creditScores, lenderFeeBps,
                                    borrowerFeeBps, treasury, paused, guard,
                                    balance>>]_vars

C17_Witness ==
    /\ last.op = "rejectLoan" /\ last.result = "ok"
    /\ last.sender \notin {Owner, loans[last.loanId + 1].borrower}
    /\ loans[last.loanId + 1].status = Rejected
    /\ events[Len(events)].type = "LoanRejected"
    /\ ~last.nested

\* C18: requestLoan fails with InvalidAmount when principal = 0, with
\* InvalidDuration when durationDays = 0 and with EmptyPurpose when purpose is
\* empty (the first of the three, in this order, when several hold, and Paused
\* before all of them); a failed requestLoan leaves loanCount, every loan,
\* every loanIndex and every creditScore unchanged and emits no event.
ExpectedRequestError(a, d, p) ==
    IF a = 0 THEN "InvalidAmount"
    ELSE IF d = 0 THEN "InvalidDuration"
    ELSE IF p = "" THEN "EmptyPurpose"
    ELSE "ok"

RequestChecked ==
    \A a \in {0, 1, 250}, d \in {0, 1, 30}, p \in {"", "seed"} :
       /\ (a = 0 \/ d = 0 \/ p = "") => requestLoanError(a, d, p) # "ok"
       /\ ~paused => requestLoanError(a, d, p) = ExpectedRequestError(a, d, p)

RequestFails == CheckFailed /\ last'.op = "requestLoan"

C18_RequestRefused ==
    /\ []RequestChecked
    /\ [][RequestFails =>
            /\ UNCHANGED <<loans, userLoans, creditScores, events, balance>>
            /\ Len(loans') = Len(loans)
            /\ ~paused =>
                  /\ last'.result \in {"InvalidAmount", "InvalidDuration", "EmptyPurpose"}
                  /\ last'.result =
                        ExpectedRequestError(last'.args[1], last'.args[2], last'.args[3])]_vars
    /\ [][RequestReturned =>
            /\ last'.args[1] > 0 /\ last'.args[2] > 0 /\ last'.args[3] # ""
            /\ ~paused]_vars

C18_Witness ==
    /\ last.op = "requestLoan" /\ last.result = "EmptyPurpose"
    /\ last.args[1] > 0 /\ last.args[2] > 0 /\ last.args[3] = ""
    /\ Len(loans) = 1
    /\ Len(events) = 1
    /\ Len(userLoans[last.sender]) = 1

\* C19: a successful requestLoan(caller, principal, durationDays, purpose)
\* appends exactly one loan, with borrower = caller, the given principal,
\* duration and purpose, status Pending, lender none and dueDate = now +
\* durationDays * 86400, leaves the loans that exist as they are, appends the
\* new id at the end of loanIndex[caller] and of no other index, emits
\* LoanRequested and moves no value.
C19_RequestEffect ==
    [][RequestReturned =>
       LET who == last'.sender
           id == Len(loans)
       IN  /\ last'.loanId = id
           /\ loans' = Append(loans,
                 [borrower |-> who, amount |-> last'.args[1],
                  duration |-> last'.args[2], purpose |-> last'.args[3],
                  status |-> "Pending", dueDate |-> now + last'.args[2] * 86400,
                  lender |-> "none"])
           /\ userLoans' =
                 [a \in Accounts |->
                     IF a = who THEN userLoans[a] \o <<id>> ELSE userLoans[a]]
           /\ events' = Append(events,
                 [type |-> "LoanRequested", loanId |-> id, borrower |-> who,
                  lender |-> "none", amount |-> last'.args[1],
                  duration |-> last'.args[2], lenderFee |-> 0, borrowerFee |-> 0])
           /\ UNCHANGED <<balance, creditScores>>]_vars

C19_Witness ==
    /\ last.op = "requestLoan" /\ last.result = "ok" /\ ~last.nested
    /\ Len(loans) = 2
    /\ loans[2].borrower = last.sender
    /\ loans[1].borrower # last.sender
    /\ userLoans[last.sender] = <<1>>
    /\ loans[2].dueDate = (now - 1) + loans[2].duration * 86400
    /\ loans[2].dueDate > loans[1].dueDate

\* C20: while the engine is paused every requestLoan, fundLoan, rejectLoan and
\* repayLoan, and every approveLoan of the administrator, fails with Paused
\* (an approveLoan of anyone else fails as unauthorized), and no step changes
\* a loan, a loanIndex, a creditScore, a balance or the event log until
\* unpause(); pause() and unpause() themselves change no loan, index, credit
\* score, balance or fee setting.
LoanOps == {"requestLoan", "fundLoan", "rejectLoan", "repayLoan", "approveLoan"}

PausedRefusesAll ==
    paused =>
       /\ call.pc = "idle"
       /\ \A r \in RequestInputs : requestLoanError(r[1], r[2], r[3]) = "Paused"
       /\ \A id \in LoanIds :
             /\ rejectLoanError(id) = "Paused"
             /\ approveLoanError(Owner, id) = "Paused"
             /\ \A s \in Accounts \ {Owner} : approveLoanError(s, id) # "ok"
             /\ \A s \in Accounts :
                   /\ \A v \in FundValues(id) : fundLoanError(id, v) = "Paused"
                   /\ \A v \in RepayValues(id) : repayLoanError(s, id, v) = "Paused"

PauseSwitched ==
    /\ call.pc = "idle" /\ call'.pc = "idle"
    /\ last'.op \in {"pause", "unpause"}

C20_PausedFrozen ==
    /\ []PausedRefusesAll
    /\ [][paused =>
            /\ UNCHANGED <<loans, userLoans, creditScores, balance, events>>
            /\ last'.op \in LoanOps =>
                  /\ last'.result # "ok"
                  /\ (last'.op # "approveLoan" \/ last'.sender = Owner) =>
                        last'.result = "Paused"]_vars
    /\ [][PauseSwitched =>
            /\ UNCHANGED <<loans, userLoans, creditScores, balance, events,
                           lenderFeeBps, borrowerFeeBps, treasury>>
            /\ last'.result = "ok" => paused' = (last'.op = "pause")]_vars

C20_Witness ==
    /\ paused
    /\ last.op \in {"fundLoan", "rejectLoan"} /\ last.result = "Paused"
    /\ Len(loans) = 1
    /\ loans[1].status = Pending
    /\ \A a \in Accounts : balance[a] = InitialBalance

\* C21: in every reachable state lenderFeeBps <= 1000 and borrowerFeeBps <=
\* 1000; a setFees of the administrator with either argument above 1000 fails
\* with FeeTooHigh and changes neither rate, not even the one within range,
\* and one with both arguments within range sets both.
AdminReturns(op) ==
    call.pc = "idle" /\ call'.pc = "idle" /\ last'.op = op

C21_FeeCap ==
    /\ [](lenderFeeBps <= 1000 /\ borrowerFeeBps <= 1000)
    /\ [][(AdminReturns("setFees") /\ last'.sender = Owner) =>
            IF last'.args[1] > 1000 \/ last'.args[2] > 1000
            THEN /\ last'.result = "FeeTooHigh"
                 /\ UNCHANGED <<lenderFeeBps, borrowerFeeBps>>
            ELSE /\ last'.result = "ok"
                 /\ lenderFeeBps' = last'.args[1]
                 /\ borrowerFeeBps' = last'.args[2]]_vars

C21_Witness ==
    /\ last.op = "setFees" /\ last.result = "FeeTooHigh"
    /\ last.args[1] > 1000 /\ last.args[2] <= 1000
    /\ borrowerFeeBps # last.args[2]
    /\ borrowerFeeBps = 1000 /\ lenderFeeBps = 1000

\* C22: lenderFeeBps, borrowerFeeBps, treasury and the paused flag change only
\* on a successful setFees, setTreasury, pause or unpause of the
\* administrator (each changes only its own setting); a call of any of these
\* or of approveLoan by another account fails and changes nothing; no step of
\* requestLoan, fundLoan, rejectLoan or repayLoan changes them; and treasury
\* is never none.
OwnerOps == {"setFees", "setTreasury", "pause", "unpause", "approveLoan"}

ByOwner(ops) ==
    /\ call.pc = "idle" /\ call'.pc = "idle"
    /\ last'.op \in ops /\ last'.sender = Owner /\ last'.result = "ok"

C22_ConfigByAdmin ==
    /\ [](treasury # NONE)
    /\ [][/\ <<lenderFeeBps', borrowerFeeBps'>> # <<lenderFeeBps, borrowerFeeBps>>
             => ByOwner({"setFees"})
          /\ treasury' # treasury => ByOwner({"setTreasury"})
          /\ paused' # paused => ByOwner({"pause", "unpause"})]_vars
    /\ [][(/\ call.pc = "idle" /\ call'.pc = "idle"
           /\ last'.op \in OwnerOps /\ last'.sender # Owner) =>
             /\ last'.result = "Unauthorized"
             /\ UNCHANGED storage]_vars
    /\ [][(call.pc # "idle" \/ call'.pc # "idle") =>
             UNCHANGED <<lenderFeeBps, borrowerFeeBps, treasury, paused>>]_vars

C22_Witness ==
    /\ last.op \in {"setFees", "setTreasury", "pause", "unpause"}
    /\ last.sender # Owner /\ last.result = "Unauthorized"
    /\ lenderFeeBps = 1000 /\ borrowerFeeBps = 1000
    /\ treasury = Owner /\ ~paused
    /\ Len(loans) = 1

\* C23: approveLoan(admin, loanId) on a Pending loan (engine not paused) sets
\* the loan's status to Approved and its dueDate to now + durationDays * 86400
\* and changes nothing else: lender stays none, no balance, creditScore or
\* loanIndex changes and no event is emitted; on a loan that is not Pending
\* it fails with NotPending and changes nothing.
C23_ApproveEffect ==
    [][(AdminReturns("approveLoan") /\ last'.sender = Owner /\ ~paused
          /\ last'.loanId < Len(loans)) =>
       LET id == last'.loanId
           L == loans[id + 1]
       IN  IF L.status = "Pending"
           THEN /\ last'.result = "ok"
                /\ loans' = [loans EXCEPT ![id + 1] =
                      [borrower |-> L.borrower, amount |-> L.amount,
                       duration |-> L.duration, purpose |-> L.purpose,
                       status |-> "Approved",
                       dueDate |-> now + L.duration * 86400,
                       lender |-> L.lender]]
                /\ L.lender = "none"
                /\ UNCHANGED <<balance, creditScores, userLoans, events,
                               lenderFeeBps, borrowerFeeBps, treasury, paused>>
           ELSE /\ last'.result = "NotPending"
                /\ UNCHANGED storage]_vars

C23_Witness ==
    /\ last.op = "approveLoan" /\ last.result = "ok"
    /\ loans[last.loanId + 1].status = Approved
    /\ loans[last.loanId + 1].lender = NONE
    /\ loans[last.loanId + 1].dueDate = (now - 1) + loans[last.loanId + 1].duration * 86400
    /\ Len(events) = Len(loans)
    /\ \A a \in Accounts : balance[a] = InitialBalance

\* C24: fundLoan prices both fees with the rates in force when it executes.
\* When a client has read lenderFeeBps and computed principal + fee, and a
\* setFees that changes floor(principal * lenderFeeBps / 10000) is committed
\* before the client's fundLoan, that fundLoan (on a loan still Pending) fails
\* with IncorrectValue, the loan stays Pending and no value moves; when the
\* fee is the one the client computed, fundLoan goes on with the fees of the
\* current rates.
ClientSends == quote # NoQuote /\ quote' = NoQuote

C24_StalePriceRefused ==
    [][(ClientSends /\ ~Nested /\ loans[quote.loanId + 1].status = "Pending") =>
       LET id == quote.loanId
           P == loans[id + 1].amount
       IN  /\ quote.required = P + Floor(P, quote.lenderFeeBps)
           /\ IF Floor(P, lenderFeeBps) # Floor(P, quote.lenderFeeBps)
              THEN /\ last'.op = "fundLoan"
                   /\ last'.result = "IncorrectValue"
                   /\ last'.value = quote.required
                   /\ loans'[id + 1].status = "Pending"
                   /\ UNCHANGED storage
              ELSE /\ call'.pc = "fund_leg1"
                   /\ call'.lenderFee = Floor(P, lenderFeeBps)
                   /\ call'.borrowerFee = Floor(P, borrowerFeeBps)
                   /\ balance'[treasury] >= balance[treasury]]_vars

C24_Witness ==
    /\ last.op = "fundLoan" /\ last.result = "IncorrectValue"
    /\ quote = NoQuote
    /\ last.value = loans[last.loanId + 1].amount
                       + Floor(loans[last.loanId + 1].amount, DEFAULT_LENDER_FEE_BPS)
    /\ lenderFeeBps = 1000
    /\ loans[last.loanId + 1].status = Pending
    /\ \A a \in Accounts : balance[a] = InitialBalance

\* C25: no step that is kept changes the borrower, principal, durationDays or
\* purpose of a loan, changes a lender that is not none, removes a loan, or
\* removes or reorders an entry of a loanIndex (each index only grows at its
\* end); a transaction that is rolled back leaves loans and indexes exactly
\* as they were before it began.
IsPrefix(s, t) ==
    Len(s) <= Len(t) /\ \A k \in 1..Len(s) : t[k] = s[k]

C25_AppendOnly ==
    [][IF RevertStep
       THEN loans' = saved.loans /\ userLoans' = saved.userLoans
       ELSE /\ Len(loans') >= Len(loans)
            /\ \A i \in 1..Len(loans) :
                  /\ loans'[i].borrower = loans[i].borrower
                  /\ loans'[i].amount = loans[i].amount
                  /\ loans'[i].duration = loans[i].duration
                  /\ loans'[i].purpose = loans[i].purpose
                  /\ loans[i].lender # "none" => loans'[i].lender = loans[i].lender
            /\ \A a \in Accounts : IsPrefix(userLoans[a], userLoans'[a])]_vars

C25_Witness ==
    /\ Len(loans) = 2
    /\ \E a \in Accounts : userLoans[a] = <<0, 1>>
    /\ loans[1].status = Repaid
    /\ loans[1].lender \notin {NONE, loans[1].borrower}
    /\ loans[1].purpose # ""
    /\ last.op = "repayLoan" /\ last.result = "ok"

\* C26: for every account, creditScore[account] after an operation, successful
\* or failed, of a user or of the administrator, is at least what it was
\* before the operation; it is never negative, and no step other than the
\* roll-back of a failed repayLoan (which returns it to the value before that
\* repayLoan) lowers it.
ScoresAtLeast(after, before) ==
    \A a \in Accounts : after[a] >= before[a]

C26_ScoreMonotone ==
    /\ [](\A a \in Accounts : creditScores[a] >= 0)
    /\ [][(call.pc = "idle" /\ call'.pc = "idle") =>
             ScoresAtLeast(creditScores', creditScores)]_vars
    /\ [][(call.pc # "idle" /\ call'.pc = "idle") =>
             ScoresAtLeast(creditScores', saved.creditScores)]_vars
    /\ [][IF RevertStep
          THEN creditScores' = saved.creditScores
          ELSE ScoresAtLeast(creditScores', creditScores)]_vars

C26_Witness ==
    /\ last.op = "repayLoan" /\ last.result = "ok"
    /\ last.value = loans[last.loanId + 1].amount
    /\ creditScores[last.sender] = 10
    /\ \E a \in Accounts : a # last.sender /\ creditScores[a] = 0

\* C27: every successful requestLoan, fundLoan, rejectLoan and repayLoan emits
\* exactly one event of its own kind (LoanRequested, LoanFunded, LoanRejected,
\* LoanRepaid) carrying the loan's id and borrower and, for LoanFunded and
\* LoanRepaid, the lender and principal as stored; an operation that fails
\* emits no event (a transaction that is rolled back leaves the event log as
\* it was before it), and nothing else writes to the event log.
EventsOf(es, type) == SelectSeq(es, LAMBDA e : e.type = type)

AsStored(e, ls) ==
    /\ e.loanId < Len(ls)
    /\ e.borrower = ls[e.loanId + 1].borrower
    /\ e.type \in {"LoanFunded", "LoanRepaid"} =>
          /\ e.lender = ls[e.loanId + 1].lender
          /\ e.amount = ls[e.loanId + 1].amount

EmitsOne(before, after, type, loanId, ls) ==
    /\ Len(EventsOf(after, type)) = Len(EventsOf(before, type)) + 1
    /\ IsPrefix(EventsOf(before, type), EventsOf(after, type))
    /\ LET e == EventsOf(after, type)[Len(EventsOf(after, type))]
       IN  e.loanId = loanId /\ AsStored(e, ls)

C27_OneEventEach ==
    /\ [][(CheckFailed /\ ~RevertStep) => events' = events]_vars
    /\ [][RevertStep => events' = saved.events]_vars
    /\ [][~RevertStep =>
            \/ events' = events
            \/ \E e \in {events'[Len(events')]} : events' = Append(events, e)]_vars
    /\ [][RequestReturned =>
            /\ events' = Append(events, events'[Len(events')])
            /\ EmitsOne(events, events', "LoanRequested", last'.loanId, loans')]_vars
    /\ [][(RejectReturns /\ last'.result = "ok") =>
            /\ events' = Append(events, events'[Len(events')])
            /\ EmitsOne(events, events', "LoanRejected", last'.loanId, loans')]_vars
    /\ [][FundReturns =>
            /\ EmitsOne(saved.events, events', "LoanFunded", call.loanId, loans')
            /\ EventsOf(events', "LoanRepaid") = EventsOf(saved.events, "LoanRepaid")]_vars
    /\ [][RepayReturns =>
            /\ EmitsOne(saved.events, events', "LoanRepaid", call.loanId, loans')
            /\ EventsOf(events', "LoanFunded") = EventsOf(saved.events, "LoanFunded")]_vars

C27_Witness ==
    /\ last.op = "repayLoan" /\ last.result = "ok"
    /\ Len(events) = 3
    /\ events[1].type = "LoanRequested"
    /\ events[2].type = "LoanFunded"
    /\ events[3].type = "LoanRepaid"
    /\ events[3].lender = events[2].lender
    /\ events[3].lender # events[3].borrower
    /\ \A k \in 1..3 : events[k].loanId = last.loanId

\* C28: after every sequence of operations and for every loan, the status
\* rebuilt by replaying the event log in order (LoanRequested -> Pending,
\* LoanFunded -> Approved, LoanRepaid -> Repaid, LoanRejected -> Rejected,
\* the last event of the loan wins) is the status stored for the loan and
\* returned by getLoan.
C28_ReplayEqualsStore ==
    call.pc = "idle" =>
       \A id \in 0..(getLoanCount - 1) :
          LET temp == LoansFromEvents(events, getLoan(id).borrower)
          IN  /\ id \in DOMAIN temp
              /\ temp[id] = StatusCode(getLoan(id).status)

\* C29: isLoanRejected(networkId, contract, loanId) is true whenever loanId is
\* marked in the map stored under any of the candidate keys of (networkId,
\* contract) - the decimal chain id key or a hex chain id key - not only in
\* the first of them that holds a map.
MarkedUnderAnyKey(ls, n, a, id) ==
    \E i \in 1..Len(candidateKeysFor(n, a)) :
       LET k == candidateKeysFor(n, a)[i]
       IN  k \in DOMAIN ls /\ \E j \in 1..Len(ls[k]) : ls[k][j] = <<toString(id), TRUE>>

C29_AnyKeyReported ==
    \A n \in NetworkInputs, a \in ContractInputs, id \in MarkIds :
       MarkedUnderAnyKey(localStorage, n, a, id) =>
          isLoanRejected(localStorage, n, a, id)

\* The chain a chain id denotes: the value of a number, of a string of decimal
\* digits or of a 0x / 0X hex string; -1 for a missing chain id.
ChainOf(n) ==
    IF n.kind = "null" THEN -1
    ELSE IF n.kind = "number" THEN n.n
    ELSE IF startsWith0x(n.s) THEN BigInt(n.s)
    ELSE DecimalValue(n.s)

SameChain(n1, n2) == ChainOf(n1) >= 0 /\ ChainOf(n1) = ChainOf(n2)

SameContract(a1, a2) == toLowerCase(a1) = toLowerCase(a2)

Marks == did'.op = "markLoanRejected"

\* After markLoanRejected(n1, a1, id), every spelling of the same chain and
\* contract reports id.
MarkReported ==
    Marks =>
       \A n2 \in NetworkInputs, a2 \in ContractInputs :
          SameChain(did'.networkId, n2) /\ SameContract(did'.contract, a2) =>
             isLoanRejected(localStorage', n2, a2, did'.loanId)

\* Marking one id leaves every id reported under the same chain and contract
\* reported.
MarkKeepsEarlier ==
    Marks =>
       \A n2 \in NetworkInputs, a2 \in ContractInputs, id \in MarkIds :
          /\ SameChain(did'.networkId, n2)
          /\ SameContract(did'.contract, a2)
          /\ isLoanRejected(localStorage, n2, a2, id)
          => isLoanRejected(localStorage', n2, a2, id)

\* Marking under one chain and contract changes no answer for another chain
\* or another contract.
MarkKeptApart ==
    Marks =>
       \A n2 \in NetworkInputs, a2 \in ContractInputs, id \in MarkIds :
          /\ ChainOf(did'.networkId) >= 0 /\ ChainOf(n2) >= 0
          /\ ~(SameChain(did'.networkId, n2) /\ SameContract(did'.contract, a2))
          => isLoanRejected(localStorage', n2, a2, id)
                = isLoanRejected(localStorage, n2, a2, id)

\* C30: after markLoanRejected(n1, a1, id), isLoanRejected(n2, a2, id) is true
\* for every n2 denoting the same chain as n1 (decimal number, decimal string,
\* 0x-hex string in either letter case) and every a2 equal to a1 up to letter
\* case; marking one id never unmarks an id marked earlier under the same
\* chain and contract; and ids marked for a different chain or contract are
\* not reported.
C30_MarkAcrossSpellings ==
    [][MarkReported /\ MarkKeepsEarlier /\ MarkKeptApart]_vars

\* C31: a loan marked with markLoanRejected while no chain id is available
\* (networkId null; the call writes the 'unknown' fallback key) is afterwards
\* reported by isLoanRejected for the same contract and the same missing chain
\* id, and clearRejectedFor with the same arguments removes it.
FallbackKey(a) == StorageKey(<<"unknown">>, normalizeAddress(a))

MarkedWithoutChain(ls, a, id) ==
    /\ FallbackKey(a) \in DOMAIN ls
    /\ id \in JSONparse(ls[FallbackKey(a)])

C31_FallbackRoundTrip ==
    [][/\ (Marks /\ did'.networkId = Null) =>
             isLoanRejected(localStorage', Null, did'.contract, did'.loanId)
       /\ (did'.op = "clearRejectedFor" /\ did'.networkId = Null) =>
             \A id \in MarkIds :
                ~MarkedWithoutChain(localStorage', did'.contract, id)]_vars

\* All the value there is, the ledger's included.
Total(bal) == bal[Owner] + bal["alice"] + bal["bob"] + bal[Ledger]

\* A call that began and ended on this step (a failed check, or an operation
\* that makes no transfer), at top level or from a receipt hook.
SingleStepCall == last' # last /\ call'.pc = call.pc

\* fundLoan or repayLoan ends on this step, returning or rolled back.
PayableEnds == call.pc # "idle" /\ call'.pc = "idle"

\* C32: the ledger never keeps custody of value. After every completed
\* operation, successful or failed, the ledger's balance is what it was before
\* the operation, and zero between transactions since it started at zero; no
\* value is created or lost, so what lenders and borrowers paid in equals what
\* borrowers, lenders, the treasury and refunds were paid out.
C32_NoCustody ==
    /\ [](~Nested => balance[Ledger] = 0)
    /\ [](Total(balance) = 3 * InitialBalance)
    /\ [][/\ SingleStepCall => balance'[Ledger] = balance[Ledger]
          /\ PayableEnds => balance'[Ledger] = saved.balance[Ledger]]_vars

C32_Witness ==
    /\ ~Nested
    /\ last.op = "repayLoan" /\ last.result = "ok"
    /\ last.value > loans[last.loanId + 1].amount
    /\ HasEvent("LoanFunded", last.loanId)
    /\ balance[treasury] > InitialBalance
    /\ balance[Ledger] = 0

\* The loans of a borrower that are Repaid.
RepaidLoansOf(a) ==
    {i \in 1..Len(loans) : loans[i].borrower = a /\ loans[i].status = Repaid}

\* C33: in every reachable state and for every account a, creditScores[a] is
\* 10 times the number of loans whose borrower is a and whose status is
\* Repaid: a loan counts at most once, and Pending, Approved and Rejected
\* loans count for nothing.
C33_ScoreCountsRepaid ==
    \A a \in Accounts :
       creditScores[a] = CREDIT_INCREMENT * Cardinality(RepaidLoansOf(a))

C33_Witness ==
    \E a \in Accounts :
       /\ creditScores[a] = CREDIT_INCREMENT
       /\ Cardinality(RepaidLoansOf(a)) = 1
       /\ \E i \in 1..Len(loans) :
             loans[i].borrower = a /\ loans[i].status # Repaid
       /\ \E b \in Accounts \ {a} :
             /\ creditScores[b] = 0
             /\ \E i \in 1..Len(loans) : loans[i].lender = b

RECURSIVE SumOfLengths(_)
SumOfLengths(accounts) ==
    IF accounts = {} THEN 0
    ELSE LET a == CHOOSE x \in accounts : TRUE
         IN  getUserLoanCount(a) + SumOfLengths(accounts \ {a})

\* The places of the borrowers' indexes that hold a loan id.
PlacesOf(id) ==
    {<<a, j>> \in Accounts \X (1..MaxLoans) :
        j <= Len(userLoans[a]) /\ userLoans[a][j] = id}

\* C34: in every reachable state the index of each account a is exactly the
\* strictly increasing sequence of the ids of the loans whose borrower is a:
\* every loan id is in exactly one account's index, exactly once, the lengths
\* of the indexes sum to loanCount, and getUserLoanAtIndex(a, i) returns a
\* loan whose borrower is a.
C34_IndexExact ==
    /\ \A a \in Accounts :
          /\ \A j \in 1..Len(userLoans[a]) :
                /\ userLoans[a][j] < getLoanCount
                /\ getLoan(userLoans[a][j]).borrower = a
                /\ j > 1 => userLoans[a][j - 1] < userLoans[a][j]
          /\ \A i \in 0..(getUserLoanCount(a) - 1) :
                getUserLoanAtIndex(a, i).borrower = a
          /\ IndexedIds(a) =
                {id \in 0..(getLoanCount - 1) : getLoan(id).borrower = a}
    /\ \A id \in 0..(getLoanCount - 1) : Cardinality(PlacesOf(id)) = 1
    /\ SumOfLengths(Accounts) = getLoanCount

C34_Witness ==
    /\ getLoanCount = 2
    /\ \E a \in Accounts :
          /\ getUserLoanCount(a) = 2
          /\ getUserLoanAtIndex(a, 1).borrower = a
          /\ getUserLoanAtIndex(a, 0) # getUserLoanAtIndex(a, 1)

\* A loan that approveLoan approved: Approved with no lender recorded.
ApprovedByOwner(id) ==
    /\ id < getLoanCount
    /\ getLoan(id).status = Approved
    /\ getLoan(id).lender = NONE

\* What the ledger answers to calls on such a loan.
OwnerApprovedRefuses ==
    \A id \in 0..(getLoanCount - 1) :
       ApprovedByOwner(id) =>
          /\ \A v \in FundValues(id) \cup RepayValues(id) :
                /\ fundLoanError(id, v) # "ok"
                /\ (~paused /\ guard = "NOT_ENTERED") =>
                      fundLoanError(id, v) = "NotPending"
                /\ \A s \in Accounts :
                      /\ repayLoanError(s, id, v) # "ok"
                      /\ (/\ ~paused /\ guard = "NOT_ENTERED"
                          /\ s = getLoan(id).borrower /\ v >= getLoan(id).amount)
                            => repayLoanError(s, id, v) = "NoLender"
          /\ rejectLoanError(id) # "ok"
          /\ ~paused => rejectLoanError(id) = "NotPending"

\* The call that returned on this step named a loan approved by the owner.
OnOwnerApproved ==
    /\ last' # last
    /\ last'.op \in {"fundLoan", "rejectLoan", "repayLoan"}
    /\ last'.result \notin {"Reentrant", "Paused"}
    /\ ApprovedByOwner(last'.loanId)

\* C35: a loan that became Approved through approveLoan, so with lender none,
\* stays Approved for ever: every later repayLoan on it fails (NoLender when
\* the borrower calls with enough value), every fundLoan and rejectLoan on it
\* fails with NotPending, its lender is never set and its borrower's
\* creditScore is never incremented on its account.
C35_OwnerApprovedStuck ==
    /\ []OwnerApprovedRefuses
    /\ [][/\ \A id \in 0..(getLoanCount - 1) :
                ApprovedByOwner(id) =>
                   /\ id < Len(loans')
                   /\ loans'[id + 1] = loans[id + 1]
                   /\ (call'.pc # "idle" /\ call'.pc # call.pc) => call'.loanId # id
                   /\ creditScores' # creditScores => call'.loanId # id
          /\ OnOwnerApproved =>
                /\ last'.result # "ok"
                /\ last'.op \in {"fundLoan", "rejectLoan"} =>
                      last'.result = "NotPending"
                /\ (/\ last'.op = "repayLoan"
                    /\ last'.sender = getLoan(last'.loanId).borrower
                    /\ last'.value >= getLoan(last'.loanId).amount) =>
                      last'.result = "NoLender"
                /\ UNCHANGED <<loans, userLoans, creditScores, balance, events>>]_vars

C35_Witness ==
    /\ last.op = "repayLoan"
    /\ last.result = "NoLender"
    /\ ApprovedByOwner(last.loanId)
    /\ last.sender = getLoan(last.loanId).borrower
    /\ creditScores[last.sender] = 0

\* The borrower fee and payout of every loan under the rate in force.
FeeBelowPrincipal ==
    /\ borrowerFeeBps <= MAX_FEE_BPS
    /\ \A id \in 0..(getLoanCount - 1) :
          LET P == getLoan(id).amount
              fee == BorrowerFee(P, borrowerFeeBps)
          IN  /\ P > 0
              /\ fee = Floor(P, borrowerFeeBps)
              /\ fee <= P
              /\ ToBorrower(P, fee) > 0
              /\ P * borrowerFeeBps < BPS_DENOMINATOR =>
                    fee = 0 /\ ToBorrower(P, fee) = P

\* fundLoan's second transfer is made on this step.
PaysBorrower == call.pc = "fund_leg1" /\ call'.pc = "fund_leg2"

\* C36: for every loan (principal P > 0) and every fee configuration reachable
\* through the constructor defaults and setFees, the borrower fee
\* floor(P * borrowerFeeBps / 10000) is at most P, so the payout P - fee is
\* strictly positive and fundLoan's subtraction never underflows; for
\* P below 10000 / borrowerFeeBps the fee is 0 and the borrower receives the
\* whole principal.
C36_PayoutPositive ==
    /\ []FeeBelowPrincipal
    /\ [][PaysBorrower =>
          LET L == getLoan(call.loanId)
              paid == balance'[L.borrower] - balance[L.borrower]
          IN  /\ call.borrowerFee = Floor(L.amount, borrowerFeeBps)
              /\ paid = L.amount - call.borrowerFee
              /\ paid > 0
              /\ L.amount * borrowerFeeBps < BPS_DENOMINATOR => paid = L.amount]_vars

C36_Witness ==
    /\ last.op = "fundLoan" /\ last.result = "ok"
    /\ borrowerFeeBps = MAX_FEE_BPS
    /\ getLoan(last.loanId).amount = 9
    /\ events[Len(events)].type = "LoanFunded"
    /\ events[Len(events)].borrowerFee = 0
    /\ balance[getLoan(last.loanId).borrower] = InitialBalance + 9

\* A fundLoan or repayLoan sent as a transaction returned on this step.
TopLevelPayable ==
    /\ last' # last
    /\ ~Nested
    /\ call'.pc = "idle"
    /\ last'.op \in {"fundLoan", "repayLoan"}

\* C37: the reentrancy guard is held only while a fundLoan or repayLoan is
\* executing. When such a call ends - returning, failing a check, rolled back
\* by a refused transfer on any leg, or after a nested call was blocked - the
\* guard is free, and no fundLoan or repayLoan sent as a transaction is ever
\* refused as reentrant.
C37_GuardReleased ==
    /\ []((guard = "ENTERED") <=> (Nested /\ call.op \in {"fundLoan", "repayLoan"}))
    /\ [][/\ PayableEnds => guard' = "NOT_ENTERED"
          /\ TopLevelPayable =>
                guard' = "NOT_ENTERED" /\ last'.result # "Reentrant"
          /\ (last' # last /\ last'.result = "Reentrant") =>
                /\ Nested /\ last'.nested
                /\ guard' = "ENTERED"]_vars

C37_Witness ==
    /\ last.op = "repayLoan"
    /\ last.result = "TransferFailed"
    /\ last.args = <<"repay_lender">>
    /\ ~Nested
    /\ guard = "NOT_ENTERED"

\* A loan some lender has funded.
HasLender(id) == id < getLoanCount /\ getLoan(id).lender # NONE

\* fundLoan starts its transfers on this step.
FundEnters == call.pc = "idle" /\ call'.pc = "fund_leg1"

\* A fundLoan that failed one of its checks returned on this step.
FundRefused == CheckFailed /\ last' # last /\ last'.op = "fundLoan"

\* C38: when several lenders send fundLoan for the same Pending loan, in any
\* order, at most one succeeds and is the recorded lender; every attempt that
\* comes after it fails with NotPending, and no attempt that fails moves any
\* value to the borrower or the treasury, so the borrower is paid the proceeds
\* of a loan at most once and the treasury its two fees at most once per loan.
C38_OneLenderWins ==
    /\ [](\A id \in 0..(getLoanCount - 1) :
             /\ CountEvents(events, "LoanFunded", id) <= 1
             /\ HasLender(id) =>
                   \E i \in 1..Len(events) :
                      /\ events[i].type = "LoanFunded"
                      /\ events[i].loanId = id
                      /\ events[i].lender = getLoan(id).lender)
    /\ [][/\ FundEnters =>
                /\ ~HasLender(call'.loanId)
                /\ ~HasEvent("LoanFunded", call'.loanId)
          /\ FundReturns =>
                /\ saved.loans[call.loanId + 1].lender = NONE
                /\ loans'[call.loanId + 1].lender = call.sender
          /\ FundRefused =>
                /\ UNCHANGED storage
                /\ (/\ last'.result \notin {"Reentrant", "Paused"}
                    /\ HasLender(last'.loanId)) => last'.result = "NotPending"
          /\ (RevertStep /\ call.op = "fundLoan") =>
                /\ balance' = saved.balance
                /\ loans'[call.loanId + 1].lender = NONE]_vars

C38_Witness ==
    /\ last.op = "fundLoan"
    /\ last.result = "NotPending"
    /\ HasLender(last.loanId)
    /\ getLoan(last.loanId).lender # last.sender
    /\ last.value = Price(last.loanId)
    /\ balance[last.sender] = InitialBalance
====
